---------------------------- MODULE Spec2Model ----------------------------
(***************************************************************************)
(* Papermind: the vector-space core (utils/mathUtils), the                 *)
(* self-organizing map (class SOM) and the analysis of the kernel matrix   *)
(* of a library (KernelAnalysis).                                          *)
(*                                                                         *)
(* Arrays of the source are sequences; the source's zero-based index i is  *)
(* position i + 1 (At).  Labels, cluster numbers and indices stored in the *)
(* state keep the source's zero-based values.                              *)
(*                                                                         *)
(* In kMeans, dbscan and the kernel matrix numbers are exact.  Coordinates *)
(* are integers; a centroid (a mean) is a vector over a common             *)
(* denominator, and a Euclidean distance sqrt(s)/d is kept as the pair     *)
(* (s, d), so that every comparison the code makes between two distances   *)
(* is decided exactly.  The primitives and the analysis of the kernel      *)
(* matrix are computed in binary64, rounding each operation to             *)
(* nearest-even.  The clustering metrics and the map                       *)
(* compute on fractions in units of 1 or of 2^magnitude, with the          *)
(* infinities and NaN that binary64 gives beyond its range.                *)
(***************************************************************************)
EXTENDS Integers, Sequences, FiniteSets, TLC

VARIABLES
    magnitude,      \* the numbers given to an operation are in units of
                    \* 2^magnitude
    vectors,        \* the vector collection passed to the operation
    \* ---- kMeans
    k,              \* argument k
    maxIterations,  \* argument maxIterations
    centroids,      \* let centroids
    usedIndices,    \* const usedIndices
    assignments,    \* let assignments
    iterations,     \* let iterations
    changed,        \* let changed
    kmPc,           \* position in kMeans
    kmResult,       \* the returned array (<<>> until it returns)
    kmError,        \* the error raised ("" when none)
    \* ---- dbscan
    epsilon,        \* argument epsilon
    minPts,         \* argument minPts
    labels,         \* const labels: 0 = undefined, -1 = noise, > 0 = cluster ID
    clusterId,      \* let clusterId
    dbI,            \* the outer loop's i
    seedSet,        \* const seedSet of the expansion under way
    dbJ,            \* the expansion loop's j
    dbPc,           \* position in dbscan
    dbResult,       \* the returned array (<<>> until it returns)
    \* ---- computeKernelMatrix
    matrix,         \* const matrix
    kerI,           \* the outer loop's i
    kerJ,           \* the inner loop's j
    kerPc,          \* position in computeKernelMatrix
    kerResult,      \* the returned matrix (<<>> until it returns)
    kerError,       \* the message of the error raised ("" when none)
    \* ---- a call of a primitive: euclideanDistance, cosineSimilarityKernel
    argA,           \* first argument of the primitive called
    argB,           \* second argument of the primitive called
    primPc,         \* "call", then the primitive that returned or threw
    primDist,       \* the number euclideanDistance returned
    primCos,        \* the number cosineSimilarityKernel returned
    primError,      \* the message of the error raised ("" when none)
    \* ---- calculateClusteringMetrics
    labeling,       \* argument labels
    metPc,          \* "call", then "done"
    metResult,      \* the returned ClusteringMetrics
    \* ---- a SOM object and the calls of its methods
    width,          \* this.width
    height,         \* this.height
    inputDim,       \* this.inputDim
    weights,        \* this.weights: weights[x][y] is the prototype of a cell
    trained,        \* whether a train call has run the loop
    retrained,      \* whether a second one has
    trainedOn,      \* the input vectors passed to the train calls so far
    trainArgs,      \* data, iterations and startLearningRate of the last
                    \* call, when it was train with data
    schedule,       \* the radius and the learningRate of each of its
                    \* iterations
    somPc,          \* how the last call ended: "constructed", "skipped" or
                    \* "trained" or "thrown" (train), "bmu", "umatrix"
    somInput,       \* the argument of the last call, when it was findBMU
    bmu,            \* what it returned
    uMatrix,        \* what the last call returned, when it was getUMatrix
    \* ---- the analysis of KernelAnalysis
    rawMatrix,      \* const rawMatrix
    indices,        \* const indices
    visited,        \* const visited
    sortedMatrix,   \* const sortedMatrix
    flatValues,     \* const flatValues
    stats,          \* const stats
    separabilityIndex,  \* const separabilityIndex
    anPc            \* position in the analysis

kmVars == <<k, maxIterations, centroids, usedIndices, assignments,
            iterations, changed, kmPc, kmResult, kmError>>

dbVars == <<epsilon, minPts, labels, clusterId, dbI, seedSet, dbJ, dbPc, dbResult>>

kerVars == <<matrix, kerI, kerJ, kerPc, kerResult, kerError>>

primVars == <<argA, argB, primPc, primDist, primCos, primError>>

metVars == <<labeling, metPc, metResult>>

somVars == <<width, height, inputDim, weights, trained, retrained, trainedOn,
             trainArgs, schedule, somPc, somInput, bmu, uMatrix>>

anVars == <<rawMatrix, indices, visited, sortedMatrix, flatValues, stats,
            separabilityIndex, anPc>>

vars == <<magnitude, vectors, kmVars, dbVars, kerVars, primVars, metVars,
          somVars, anVars>>

(* what an operation leaves alone: the variables of the other operations *)
notKmVars == <<magnitude, dbVars, kerVars, primVars, metVars, somVars, anVars>>

notDbVars == <<magnitude, kmVars, kerVars, primVars, metVars, somVars, anVars>>

notKerVars == <<magnitude, kmVars, dbVars, primVars, metVars, somVars, anVars>>

notPrimVars == <<magnitude, vectors, kmVars, dbVars, kerVars, metVars,
                 somVars, anVars>>

notMetVars == <<kmVars, dbVars, kerVars, primVars, somVars, anVars>>

notSomVars == <<vectors, kmVars, dbVars, kerVars, primVars, metVars, anVars>>

notAnVars == <<magnitude, kmVars, dbVars, kerVars, primVars, metVars, somVars>>

---------------------------------------------------------------------------
(* Bounds of the model *)

MaxN == 3

MaxCoord == 2

MaxIter == 2

MaxEps == 2

MaxMinPts == 3

MaxPoints == 4

HugeExponent == 600

MaxData == 1

MaxPapers == 3

(* Program constants *)

(* a JavaScript number is an IEEE 754 binary64: 53 bits of significand, and *)
(* every finite number is below 2^1024                                     *)
MantissaBits == 53

MaxBinaryExponent == 1024

(* the exponent of the largest power of two that is a finite number *)
TopExponent == MaxBinaryExponent - 1

DefaultMaxIterations == 20

Unassigned == -1

Undefined == 0

Noise == -1

---------------------------------------------------------------------------
(* Arrays *)

At(a, i) == a[i + 1]

Indices(a) == 0 .. (Len(a) - 1)

RECURSIVE SumSeq(_)
SumSeq(s) == IF s = <<>> THEN 0 ELSE Head(s) + SumSeq(Tail(s))

(* The vectors the model draws its inputs from *)

Coords == 0 .. MaxCoord

Vectors1D == { <<c>> : c \in Coords }

Collections(V) == UNION { [1 .. n -> V] : n \in 0 .. MaxN }

(* The end-to-end scenario of the specification, in hundredths:            *)
(*   [[1,0],[0.99,0.01],[0,1],[0.01,0.99]]                                 *)
E2EVectors == << <<100, 0>>, <<99, 1>>, <<0, 100>>, <<1, 99>> >>

---------------------------------------------------------------------------
(* Vector math primitives *)

(* A vector with rational components num[d] / den. *)
Rat(v) == [num |-> v, den |-> 1]

(* euclideanDistance: the loop runs over vecA's components; a component    *)
(* vecB lacks reads as undefined and makes the sum NaN.  The value is      *)
(* sqrt(sq) / den.                                                         *)
EuclideanDistance(vecA, vecB) ==
    LET la == Len(vecA.num)
        lb == Len(vecB.num)
        diff(i) == vecA.num[i] * vecB.den - vecB.num[i] * vecA.den
    IN  IF la > lb
        THEN [nan |-> TRUE, inf |-> FALSE, sq |-> 0, den |-> 1]
        ELSE [nan |-> FALSE, inf |-> FALSE,
              sq  |-> SumSeq([i \in 1 .. la |-> diff(i) * diff(i)]),
              den |-> vecA.den * vecB.den]

Infinity == [nan |-> FALSE, inf |-> TRUE, sq |-> 0, den |-> 1]

(* dist < minDist on numbers: false when either is NaN *)
DistLess(a, b) ==
    IF a.nan \/ b.nan THEN FALSE
    ELSE IF a.inf THEN FALSE
    ELSE IF b.inf THEN TRUE
    ELSE a.sq * b.den * b.den < b.sq * a.den * a.den

(* addVectors over the vectors of a cluster *)
RECURSIVE AddVectors(_, _)
AddVectors(acc, vs) ==
    IF vs = <<>> THEN acc
    ELSE AddVectors([d \in 1 .. Len(acc) |-> acc[d] + Head(vs)[d]], Tail(vs))

DivideVectorMutant(a, scalar) == [num |-> a, den |-> 1]

(* divideVector *)
DivideVector(a, scalar) == [num |-> a, den |-> scalar]

RECURSIVE GCD(_, _)
GCD(a, b) == IF b = 0 THEN a ELSE GCD(b, a % b)

(* A similarity value s with s * |s| = sign * num / den, num / den in      *)
(* lowest terms: the cosine dot / (sqrt(normA) * sqrt(normB)) as the exact *)
(* real number, so that two values are equal iff their records are.        *)
Sim(dot, normProduct) ==
    IF dot = 0 THEN [sign |-> 0, num |-> 0, den |-> 1]
    ELSE LET g == GCD(dot * dot, normProduct)
         IN  [sign |-> IF dot > 0 THEN 1 ELSE -1,
              num  |-> (dot * dot) \div g,
              den  |-> normProduct \div g]

SimZero == [sign |-> 0, num |-> 0, den |-> 1]

SimOne == [sign |-> 1, num |-> 1, den |-> 1]

DimensionError == "Vectors must have the same dimensionality"

Dot(a, b, len) == SumSeq([i \in 1 .. len |-> a[i] * b[i]])

Min(a, b) == IF a < b THEN a ELSE b

CosineSimilarityKernelMutant(vecA, vecB) ==
    LET len == Min(Len(vecA), Len(vecB))
        dotProduct == Dot(vecA, vecB, len)
        normA == Dot(vecA, vecA, len)
        normB == Dot(vecB, vecB, len)
    IN  IF normA = 0 \/ normB = 0
        THEN [thrown |-> FALSE, value |-> SimZero]
        ELSE [thrown |-> FALSE, value |-> Sim(dotProduct, normA * normB)]

(* cosineSimilarityKernel (lines 6-24): the error of line 8, or the value *)
CosineSimilarityKernel(vecA, vecB) ==
    IF Len(vecA) # Len(vecB)
    THEN [thrown |-> TRUE, value |-> SimZero]
    ELSE LET dotProduct == Dot(vecA, vecB, Len(vecA))
             normA == Dot(vecA, vecA, Len(vecA))
             normB == Dot(vecB, vecB, Len(vecA))
         IN  IF normA = 0 \/ normB = 0
             THEN [thrown |-> FALSE, value |-> SimZero]
             ELSE [thrown |-> FALSE, value |-> Sim(dotProduct, normA * normB)]

---------------------------------------------------------------------------
(* Natural numbers of any size, as the sequence of their digits in base    *)
(* 2^15, least significant first, without leading zero digits.             *)

LimbBits == 3 * 5

LimbBase == 2 ^ LimbBits

RECURSIVE BigTrim(_)
BigTrim(a) ==
    IF a # <<>> /\ a[Len(a)] = 0 THEN BigTrim(SubSeq(a, 1, Len(a) - 1)) ELSE a

RECURSIVE BigOfInt(_)
BigOfInt(n) == IF n = 0 THEN <<>> ELSE <<n % LimbBase>> \o BigOfInt(n \div LimbBase)

Limb(a, i) == IF i <= Len(a) THEN a[i] ELSE 0

RECURSIVE BigAddFrom(_, _, _, _)
BigAddFrom(a, b, i, carry) ==
    IF i > Len(a) /\ i > Len(b)
    THEN IF carry = 0 THEN <<>> ELSE <<carry>>
    ELSE LET t == Limb(a, i) + Limb(b, i) + carry
         IN  <<t % LimbBase>> \o BigAddFrom(a, b, i + 1, t \div LimbBase)

BigAdd(a, b) == BigAddFrom(a, b, 1, 0)

(* a - b, for a >= b *)
RECURSIVE BigSubFrom(_, _, _, _)
BigSubFrom(a, b, i, borrow) ==
    IF i > Len(a) THEN <<>>
    ELSE LET t == Limb(a, i) - Limb(b, i) - borrow
         IN  IF t < 0
             THEN <<t + LimbBase>> \o BigSubFrom(a, b, i + 1, 1)
             ELSE <<t>> \o BigSubFrom(a, b, i + 1, 0)

BigSub(a, b) == BigTrim(BigSubFrom(a, b, 1, 0))

RECURSIVE BigLessFrom(_, _, _)
BigLessFrom(a, b, i) ==
    IF i = 0 THEN FALSE
    ELSE IF a[i] # b[i] THEN a[i] < b[i]
    ELSE BigLessFrom(a, b, i - 1)

BigLess(a, b) ==
    IF Len(a) # Len(b) THEN Len(a) < Len(b) ELSE BigLessFrom(a, b, Len(a))

RECURSIVE BigMulLimbFrom(_, _, _, _)
BigMulLimbFrom(a, d, i, carry) ==
    IF i > Len(a)
    THEN IF carry = 0 THEN <<>> ELSE <<carry>>
    ELSE LET t == a[i] * d + carry
         IN  <<t % LimbBase>> \o BigMulLimbFrom(a, d, i + 1, t \div LimbBase)

RECURSIVE BigMulFrom(_, _, _)
BigMulFrom(a, b, j) ==
    IF j > Len(b) THEN <<>>
    ELSE BigAdd(BigMulLimbFrom(a, b[j], 1, 0), <<0>> \o BigMulFrom(a, b, j + 1))

BigMul(a, b) == BigTrim(BigMulFrom(a, b, 1))

BigPow2(n) ==
    [i \in 1 .. (n \div LimbBits) |-> 0] \o <<2 ^ (n % LimbBits)>>

RECURSIVE BitLen(_)
BitLen(n) == IF n = 0 THEN 0 ELSE 1 + BitLen(n \div 2)

BigBitLen(a) ==
    IF a = <<>> THEN 0 ELSE LimbBits * (Len(a) - 1) + BitLen(a[Len(a)])

BigOdd(a) == a # <<>> /\ a[1] % 2 = 1

(* q with its bits from hi down to lo chosen, highest first, each set when *)
(* (q + 2^bit) * d <= x; the low bits stay clear once the division is      *)
(* exact.                                                                  *)
(* a \div 2^n *)
BigShiftRight(a, n) ==
    LET limbs == n \div LimbBits
        bits == n % LimbBits
    IN  BigTrim([i \in 1 .. Len(a) - limbs |->
                    (Limb(a, i + limbs) \div 2 ^ bits)
                    + (Limb(a, i + limbs + 1) % 2 ^ bits) * 2 ^ (LimbBits - bits)])

(* the element of a set of one element: { F(v) : v \in {e} } evaluates e  *)
(* once, whatever the number of places where F reads v                    *)
TheOnly(S) == CHOOSE v \in S : TRUE

RECURSIVE BigDivBits(_, _, _, _, _)
BigDivBits(x, d, q, hi, lo) ==
    IF hi = lo
    THEN LET c == BigAdd(q, BigPow2(hi))
         IN  IF BigLess(x, BigMul(c, d)) THEN q ELSE c
    ELSE LET mid == (hi + lo + 1) \div 2
         IN  TheOnly({ IF BigMul(high, d) = x THEN high
                       ELSE BigDivBits(x, d, high, mid - 1, lo) :
                       high \in { BigDivBits(x, d, q, hi, mid) } })

(* floor(x / d) for a quotient below 2^bits *)
BigDiv(x, d, bits) ==
    TheOnly({ BigDivBits(a, b, <<>>, bits - 1, 0) : a \in {x}, b \in {d} })

(* r with its bits from hi down to lo chosen, highest first, each set when *)
(* (r + 2^bit)^2 <= x; the low bits stay clear once the root is exact.     *)
RECURSIVE BigSqrtBits(_, _, _, _)
BigSqrtBits(x, r, hi, lo) ==
    IF hi = lo
    THEN LET c == BigAdd(r, BigPow2(hi))
         IN  IF BigLess(x, BigMul(c, c)) THEN r ELSE c
    ELSE LET mid == (hi + lo + 1) \div 2
         IN  TheOnly({ IF BigMul(high, high) = x THEN high
                       ELSE BigSqrtBits(x, high, mid - 1, lo) :
                       high \in { BigSqrtBits(x, r, hi, mid) } })

(* floor(sqrt(x)) for a root below 2^bits *)
BigSqrt(x, bits) == TheOnly({ BigSqrtBits(a, <<>>, bits - 1, 0) : a \in {x} })

---------------------------------------------------------------------------
(* JavaScript numbers: binary64 with round-to-nearest, ties to even.  A    *)
(* number is sign * m * 2^e with m of exactly MantissaBits bits (m empty   *)
(* for zero).  The exponents of the model stay far from the subnormal and  *)
(* overflow ranges, which are left out.                                    *)

FloatZero == [sign |-> 0, m |-> <<>>, e |-> 0]

(* a significand that rounding carried to 2^MantissaBits *)
FloatNormal(sign, m, e) ==
    IF BigBitLen(m) > MantissaBits
    THEN [sign |-> sign, m |-> BigPow2(MantissaBits - 1), e |-> e + 1]
    ELSE [sign |-> sign, m |-> m, e |-> e]

(* an integer below 2^31: exact *)
FloatOfInt(n) ==
    IF n = 0 THEN FloatZero
    ELSE LET a == IF n < 0 THEN -n ELSE n
             shift == MantissaBits - BitLen(a)
         IN  [sign |-> IF n < 0 THEN -1 ELSE 1,
              m |-> BigMul(BigOfInt(a), BigPow2(shift)),
              e |-> -shift]

(* Math.sqrt of a positive number *)
FloatSqrt(x) ==
    LET odd == x.e % 2 = 1
        big == BigMul(IF odd THEN BigAdd(x.m, x.m) ELSE x.m,
                      BigPow2(MantissaBits - 1))
        e2 == IF odd THEN x.e - 1 ELSE x.e
        r == BigSqrt(big, MantissaBits)
        rem == BigSub(big, BigMul(r, r))
        up == BigLess(r, rem)
    IN  FloatNormal(1, IF up THEN BigAdd(r, <<1>>) ELSE r,
                    (e2 - (MantissaBits - 1)) \div 2)

(* x * y *)
FloatMul(x, y) ==
    IF x.sign = 0 \/ y.sign = 0 THEN FloatZero
    ELSE LET p == BigMul(x.m, y.m)
             shift == BigBitLen(p) - MantissaBits
             q == BigShiftRight(p, shift)
             rem == BigSub(p, BigMul(q, BigPow2(shift)))
             half == BigPow2(shift - 1)
             up == BigLess(half, rem) \/ (rem = half /\ BigOdd(q))
         IN  FloatNormal(x.sign * y.sign, IF up THEN BigAdd(q, <<1>>) ELSE q,
                         x.e + y.e + shift)

(* x / y, y not zero *)
FloatDiv(x, y) ==
    IF x.sign = 0 THEN FloatZero
    ELSE LET shift == IF BigLess(x.m, y.m) THEN MantissaBits
                      ELSE MantissaBits - 1
             big == BigMul(x.m, BigPow2(shift))
             q == BigDiv(big, y.m, MantissaBits)
             rem2 == BigMul(BigSub(big, BigMul(q, y.m)), <<2>>)
             up == BigLess(y.m, rem2) \/ (rem2 = y.m /\ BigOdd(q))
         IN  FloatNormal(x.sign * y.sign, IF up THEN BigAdd(q, <<1>>) ELSE q,
                         x.e - y.e - shift)

FloatOne == FloatOfInt(1)

(* sign * m * 2^e, m not zero, rounded to the nearest number (to the even  *)
(* significand on a tie)                                                   *)
FloatRound(sign, m, e) ==
    LET shift == BigBitLen(m) - MantissaBits
    IN  IF shift <= 0
        THEN [sign |-> sign, m |-> BigMul(m, BigPow2(-shift)), e |-> e + shift]
        ELSE LET q == BigShiftRight(m, shift)
                 rem == BigSub(m, BigMul(q, BigPow2(shift)))
                 half == BigPow2(shift - 1)
                 up == BigLess(half, rem) \/ (rem = half /\ BigOdd(q))
             IN  FloatNormal(sign, IF up THEN BigAdd(q, <<1>>) ELSE q, e + shift)

(* x + y *)
FloatPlus(x, y) ==
    IF x.sign = 0 THEN y
    ELSE IF y.sign = 0 THEN x
    ELSE LET e == IF x.e < y.e THEN x.e ELSE y.e
             mx == BigMul(x.m, BigPow2(x.e - e))
             my == BigMul(y.m, BigPow2(y.e - e))
         IN  IF x.sign = y.sign THEN FloatRound(x.sign, BigAdd(mx, my), e)
             ELSE IF mx = my THEN FloatZero
             ELSE IF BigLess(mx, my) THEN FloatRound(y.sign, BigSub(my, mx), e)
             ELSE FloatRound(x.sign, BigSub(mx, my), e)

(* x + y, x - y, x * y and x / y, each operand evaluated once *)
FloatAdd(x, y) == TheOnly({ FloatPlus(a, b) : a \in {x}, b \in {y} })

FloatSub(x, y) ==
    TheOnly({ FloatPlus(a, [b EXCEPT !.sign = -b.sign]) : a \in {x}, b \in {y} })

FloatProduct(x, y) == TheOnly({ FloatMul(a, b) : a \in {x}, b \in {y} })

FloatQuotient(x, y) == TheOnly({ FloatDiv(a, b) : a \in {x}, b \in {y} })

(* x < y *)
FloatLess(x, y) ==
    IF x.sign # y.sign THEN x.sign < y.sign
    ELSE IF x.sign = 0 THEN FALSE
    ELSE LET below(a, b) == a.e < b.e \/ (a.e = b.e /\ BigLess(a.m, b.m))
         IN  IF x.sign = 1 THEN below(x, y) ELSE below(y, x)

(* cosineSimilarityKernel (lines 6-24) as the number the code returns: the *)
(* three sums are integers and exact, the two square roots, their product  *)
(* and the quotient are each rounded.                                      *)
CosineSimilarityNumber(a, b) ==
    LET dotProduct == Dot(a, b, Len(a))
        normA == Dot(a, a, Len(a))
        normB == Dot(b, b, Len(a))
    IN  IF normA = 0 \/ normB = 0 THEN FloatZero
        ELSE FloatDiv(FloatOfInt(dotProduct),
                      FloatMul(FloatSqrt(FloatOfInt(normA)),
                               FloatSqrt(FloatOfInt(normB))))

---------------------------------------------------------------------------
(* The numbers of the clustering metrics and of the map.  A finite number  *)
(* is n / d * 2^(e * magnitude) in lowest terms, n / d a small fraction:   *)
(* the inputs are small integers in units of 2^magnitude, so that sums,    *)
(* products and quotients of numbers of one unit are exact.  A result      *)
(* beyond the binary64 range is an infinity, and the sum of two numbers of *)
(* different units is the one of the larger unit (the smaller one is below *)
(* half a unit in the last place of the larger).                           *)

Abs(n) == IF n < 0 THEN -n ELSE n

NaN == [nan |-> TRUE, inf |-> 0, n |-> 0, d |-> 1, e |-> 0]

PosInf == [nan |-> FALSE, inf |-> 1, n |-> 0, d |-> 1, e |-> 0]

NegInf == [nan |-> FALSE, inf |-> -1, n |-> 0, d |-> 1, e |-> 0]

Zero == [nan |-> FALSE, inf |-> 0, n |-> 0, d |-> 1, e |-> 0]

(* the integer part of the binary logarithm of n / d, n and d positive *)
FloorLog2(n, d) ==
    IF n >= d THEN BitLen(n \div d) - 1 ELSE -BitLen((d - 1) \div n)

Num(n, d, e) ==
    IF n = 0 THEN Zero
    ELSE IF /\ e * magnitude > 0
            /\ FloorLog2(Abs(n), d) + e * magnitude >= MaxBinaryExponent
    THEN IF n > 0 THEN PosInf ELSE NegInf
    ELSE LET g == GCD(Abs(n), d)
         IN  [nan |-> FALSE, inf |-> 0, n |-> n \div g, d |-> d \div g,
              e |-> IF magnitude = 0 THEN 0 ELSE e]

Whole(n) == Num(n, 1, 0)

Finite(x) == ~x.nan /\ x.inf = 0

Sign(x) ==
    IF x.inf # 0 THEN x.inf ELSE IF x.n > 0 THEN 1 ELSE IF x.n < 0 THEN -1 ELSE 0

NumNeg(x) == [x EXCEPT !.inf = -x.inf, !.n = -x.n]

(* x + y *)
NumAdd(x, y) ==
    IF x.nan \/ y.nan THEN NaN
    ELSE IF x.inf # 0 /\ y.inf # 0 THEN IF x.inf = y.inf THEN x ELSE NaN
    ELSE IF x.inf # 0 THEN x
    ELSE IF y.inf # 0 THEN y
    ELSE IF x.n = 0 THEN y
    ELSE IF y.n = 0 THEN x
    ELSE IF x.e # y.e THEN IF x.e > y.e THEN x ELSE y
    ELSE Num(x.n * y.d + y.n * x.d, x.d * y.d, x.e)

(* x - y *)
NumSub(x, y) == NumAdd(x, NumNeg(y))

(* x * y *)
NumMul(x, y) ==
    IF x.nan \/ y.nan THEN NaN
    ELSE IF x.inf # 0 \/ y.inf # 0
    THEN IF Sign(x) * Sign(y) = 0 THEN NaN
         ELSE IF Sign(x) * Sign(y) > 0 THEN PosInf ELSE NegInf
    ELSE Num(x.n * y.n, x.d * y.d, x.e + y.e)

(* x / y: 0 / 0 and Infinity / Infinity are NaN, x / 0 is an infinity *)
NumDiv(x, y) ==
    IF x.nan \/ y.nan THEN NaN
    ELSE IF x.inf # 0
    THEN IF y.inf # 0 THEN NaN ELSE IF Sign(y) < 0 THEN NumNeg(x) ELSE x
    ELSE IF y.inf # 0 THEN Zero
    ELSE IF y.n = 0
    THEN IF x.n = 0 THEN NaN ELSE IF x.n > 0 THEN PosInf ELSE NegInf
    ELSE Num(x.n * y.d * Sign(y), x.d * Abs(y.n), x.e - y.e)

(* x < y: false when either is NaN *)
NumLess(x, y) ==
    IF x.nan \/ y.nan THEN FALSE
    ELSE IF x.inf # 0 \/ y.inf # 0 THEN x.inf < y.inf
    ELSE IF x.n # 0 /\ y.n # 0 /\ x.e # y.e
    THEN IF x.e > y.e THEN x.n < 0 ELSE y.n > 0
    ELSE x.n * y.d < y.n * x.d

(* Math.max(x, y) *)
NumMax(x, y) == IF x.nan \/ y.nan THEN NaN ELSE IF NumLess(x, y) THEN y ELSE x

(* the integer square root of a perfect square *)
Root(sq) == CHOOSE r \in 0 .. sq : r * r = sq

(* Math.sqrt of a number that is not negative and is a square *)
NumSqrt(x) ==
    IF x.nan \/ x.inf # 0 THEN x ELSE Num(Root(x.n), Root(x.d), x.e \div 2)

(* euclideanDistance on two vectors of numbers of the length of u *)
NumDistance(u, v) ==
    LET square(i) == NumMul(NumSub(u[i], v[i]), NumSub(u[i], v[i]))
        F[i \in 0 .. Len(u)] ==
            IF i = 0 THEN Zero ELSE NumAdd(F[i - 1], square(i))
    IN  NumSqrt(F[Len(u)])

(* the number euclideanDistance returns: the squares of line 47 are in     *)
(* units of 2^(2 * magnitude) and their sum is infinite beyond the range   *)
Distance(u, v) ==
    LET dist == EuclideanDistance(u, v)
    IN  IF dist.nan THEN NaN
        ELSE IF ~Finite(Num(dist.sq, dist.den * dist.den, 2)) THEN PosInf
        ELSE Num(Root(dist.sq), dist.den, 1)

---------------------------------------------------------------------------
(* An operation that is not the one under way keeps its variables idle. *)

KMeansIdle ==
    /\ k = 0 /\ maxIterations = 0 /\ centroids = <<>> /\ usedIndices = {}
    /\ assignments = <<>> /\ iterations = 0 /\ changed = FALSE
    /\ kmPc = "idle" /\ kmResult = <<>> /\ kmError = ""

DbscanIdle ==
    /\ epsilon = 0 /\ minPts = 0 /\ labels = <<>> /\ clusterId = 0 /\ dbI = 0
    /\ seedSet = <<>> /\ dbJ = 0 /\ dbPc = "idle" /\ dbResult = <<>>

KernelIdle ==
    /\ matrix = <<>> /\ kerI = 0 /\ kerJ = 0 /\ kerPc = "idle"
    /\ kerResult = <<>> /\ kerError = ""

PrimitivesIdle ==
    /\ argA = <<>> /\ argB = <<>> /\ primPc = "idle"
    /\ primDist = Infinity /\ primCos = FloatZero /\ primError = ""

MetricsIdle ==
    /\ labeling = <<>> /\ metPc = "idle"
    /\ metResult = [silhouetteScore |-> Zero, daviesBouldinIndex |-> Zero,
                    calinskiHarabaszIndex |-> Zero]

NoArgs == [data |-> <<>>, iterations |-> 0, startLearningRate |-> Zero]

SomIdle ==
    /\ width = 0 /\ height = 0 /\ inputDim = 0 /\ weights = <<>>
    /\ trained = FALSE /\ retrained = FALSE /\ trainedOn = {}
    /\ trainArgs = NoArgs /\ schedule = <<>>
    /\ somPc = "idle" /\ somInput = <<>>
    /\ bmu = [x |-> 0, y |-> 0] /\ uMatrix = <<>>

NoStats == [mean |-> FloatZero, variance |-> FloatZero, min |-> FloatZero,
            max |-> FloatZero]

AnalysisIdle ==
    /\ rawMatrix = <<>> /\ indices = <<>> /\ visited = {}
    /\ sortedMatrix = <<>> /\ flatValues = <<>> /\ stats = NoStats
    /\ separabilityIndex = FloatZero /\ anPc = "idle"

---------------------------------------------------------------------------
(* kMeans *)

(* the inner loop over c: the first centroid at minimal distance, cluster  *)
(* 0 when there is no centroid                                             *)
RECURSIVE ClosestFrom(_, _, _, _, _)
ClosestFrom(v, cents, c, minDist, closestCluster) ==
    IF c >= Len(cents) THEN closestCluster
    ELSE LET dist == EuclideanDistance(Rat(v), At(cents, c))
         IN  IF DistLess(dist, minDist)
             THEN ClosestFrom(v, cents, c + 1, dist, c)
             ELSE ClosestFrom(v, cents, c + 1, minDist, closestCluster)

ClosestCluster(v, cents) == ClosestFrom(v, cents, 0, Infinity, 0)

SelectSeqIdx(vs, labs, c) ==
    LET F[i \in 0 .. Len(vs)] ==
            IF i = 0 THEN <<>>
            ELSE IF labs[i] = c THEN Append(F[i - 1], vs[i]) ELSE F[i - 1]
    IN  F[Len(vs)]

ZeroVector(dim) == [d \in 1 .. dim |-> 0]

IdentityLabels(n) == [i \in 1 .. n |-> i - 1]

EarlyIdentityMutant(vs, kk) == kk > Len(vs)

(* line 108: if (k >= vectors.length) *)
EarlyIdentity(vs, kk) == kk >= Len(vs)

KMeansInputs ==
    { [vectors |-> vs, k |-> kk, maxIterations |-> mi] :
        vs \in Collections(Vectors1D),
        kk \in -1 .. (MaxN + 1),
        mi \in (0 .. MaxIter) \cup {DefaultMaxIterations} }
    \cup
    { [vectors |-> E2EVectors, k |-> 2, maxIterations |-> DefaultMaxIterations] }

KMeansInit ==
    \E inp \in KMeansInputs :
        /\ vectors = inp.vectors
        /\ k = inp.k
        /\ maxIterations = inp.maxIterations
        /\ centroids = <<>>
        /\ usedIndices = {}
        /\ assignments = <<>>
        /\ iterations = 0
        /\ changed = FALSE
        /\ kmPc = "call"
        /\ kmResult = <<>>
        /\ kmError = ""
        /\ DbscanIdle
        /\ KernelIdle
        /\ PrimitivesIdle
        /\ MetricsIdle
        /\ SomIdle
        /\ AnalysisIdle
        /\ magnitude = 0

(* lines 107-113: the two early returns, else start sampling *)
EmptyInputMutant(vs) == FALSE

(* line 107: if (vectors.length === 0) return [] *)
EmptyInput(vs) == Len(vs) = 0

KMeansEnter ==
    /\ kmPc = "call"
    /\ IF EmptyInput(vectors)
       THEN /\ kmResult' = <<>>
            /\ kmPc' = "done"
       ELSE IF EarlyIdentity(vectors, k)
       THEN /\ kmResult' = IdentityLabels(Len(vectors))
            /\ kmPc' = "done"
       ELSE /\ kmResult' = kmResult
            /\ kmPc' = "sample"
    /\ UNCHANGED <<vectors, k, maxIterations, centroids, usedIndices,
                   assignments, iterations, changed, kmError, notKmVars>>

(* lines 115-121: one draw of the sampling loop; a used index is drawn again *)
KMeansSample ==
    /\ kmPc = "sample"
    /\ Len(centroids) < k
    /\ \E idx \in Indices(vectors) :
        IF idx \notin usedIndices
        THEN /\ centroids' = Append(centroids, Rat(At(vectors, idx)))
             /\ usedIndices' = usedIndices \cup {idx}
        ELSE UNCHANGED <<centroids, usedIndices>>
    /\ UNCHANGED <<vectors, k, maxIterations, assignments, iterations,
                   changed, kmPc, kmResult, kmError, notKmVars>>

(* lines 123-125 *)
KMeansStart ==
    /\ kmPc = "sample"
    /\ ~(Len(centroids) < k)
    /\ assignments' = [i \in 1 .. Len(vectors) |-> Unassigned]
    /\ iterations' = 0
    /\ changed' = TRUE
    /\ kmPc' = "loop"
    /\ UNCHANGED <<vectors, k, maxIterations, centroids, usedIndices,
                   kmResult, kmError, notKmVars>>

ContinuesMutant(moved, passes, bound) == moved

(* line 127: while (changed && iterations < maxIterations) *)
Continues(moved, passes, bound) == moved /\ passes < bound

(* lines 127-162: one pass of the main loop *)
KMeansIterate ==
    /\ kmPc = "loop"
    /\ Continues(changed, iterations, maxIterations)
    /\ IF k < 0
       THEN \* line 129: Array(k) with negative k
            /\ kmError' = "RangeError"
            /\ kmPc' = "thrown"
            /\ UNCHANGED <<centroids, assignments, iterations, changed>>
       ELSE IF k = 0
       THEN \* line 149: newClusterSums[0] is undefined, addVectors reads .map of it
            /\ kmError' = "TypeError"
            /\ kmPc' = "thrown"
            /\ assignments' = [assignments EXCEPT ![1] = 0]
            /\ changed' = TRUE
            /\ UNCHANGED <<centroids, iterations>>
       ELSE LET n == Len(vectors)
                dimension == Len(vectors[1])
                closest == [i \in 1 .. n |-> ClosestCluster(vectors[i], centroids)]
                newClusterCounts ==
                    [c \in 1 .. k |-> Cardinality({i \in 1 .. n : closest[i] = c - 1})]
                newClusterSums ==
                    [c \in 1 .. k |->
                        AddVectors(ZeroVector(dimension),
                                   SelectSeqIdx(vectors, closest, c - 1))]
                empty == {c \in 1 .. k : newClusterCounts[c] = 0}
            IN  /\ assignments' = closest
                /\ changed' = (\E i \in 1 .. n : assignments[i] # closest[i])
                /\ \E randomIdx \in [empty -> Indices(vectors)] :
                     centroids' =
                        [c \in 1 .. k |->
                            IF newClusterCounts[c] > 0
                            THEN DivideVector(newClusterSums[c], newClusterCounts[c])
                            ELSE Rat(At(vectors, randomIdx[c]))]
                /\ iterations' = iterations + 1
                /\ UNCHANGED <<kmPc, kmError>>
    /\ UNCHANGED <<vectors, k, maxIterations, usedIndices, kmResult, notKmVars>>

(* line 163 *)
KMeansReturn ==
    /\ kmPc = "loop"
    /\ ~Continues(changed, iterations, maxIterations)
    /\ kmResult' = assignments
    /\ kmPc' = "done"
    /\ UNCHANGED <<vectors, k, maxIterations, centroids, usedIndices,
                   assignments, iterations, changed, kmError, notKmVars>>

KMeansNext ==
    \/ KMeansEnter
    \/ KMeansSample
    \/ KMeansStart
    \/ KMeansIterate
    \/ KMeansReturn

SpecKMeans == KMeansInit /\ [][KMeansNext]_vars

(* kMeans is sequential code, so each of its steps that can be run is run; *)
(* for the sampling loop this says that the draws of Math.random are fair: *)
(* while an unused index is left, one is drawn in the end                  *)
SpecKMeansFair ==
    /\ SpecKMeans
    /\ WF_vars(KMeansEnter)
    /\ WF_vars(KMeansSample)
    /\ WF_vars(KMeansStart)
    /\ WF_vars(KMeansIterate)
    /\ WF_vars(KMeansReturn)

---------------------------------------------------------------------------
(* dbscan *)

(* euclideanDistance(...) <= epsilon *)
DistAtMost(dist, eps) ==
    /\ ~dist.nan
    /\ eps >= 0
    /\ dist.sq <= eps * eps * dist.den * dist.den

GetNeighborsMutant(vs, eps, idx) ==
    LET F[i \in 0 .. Len(vs)] ==
            IF i = 0 THEN <<>>
            ELSE IF DistAtMost(EuclideanDistance(Rat(At(vs, idx)), Rat(vs[i])), eps)
                 THEN Append(F[i - 1], i - 1)
                 ELSE F[i - 1]
    IN  F[Len(vs)]

(* lines 179-190: the other points within epsilon of point idx, by index *)
GetNeighbors(vs, eps, idx) ==
    LET F[i \in 0 .. Len(vs)] ==
            IF i = 0 THEN <<>>
            ELSE IF i - 1 # idx
                    /\ DistAtMost(EuclideanDistance(Rat(At(vs, idx)), Rat(vs[i])), eps)
                 THEN Append(F[i - 1], i - 1)
                 ELSE F[i - 1]
    IN  F[Len(vs)]

IsNoiseMutant(neighbors, mp) == Len(neighbors) < mp

(* line 199: neighbors.length + 1 < minPts *)
IsNoise(neighbors, mp) == Len(neighbors) + 1 < mp

(* line 221: neighborNeighbors.length + 1 >= minPts *)
IsCore(neighbors, mp) == Len(neighbors) + 1 >= mp

IncludesMutant(seq, x) == FALSE

(* line 225: seedSet.includes(nn) *)
Includes(seq, x) == \E p \in 1 .. Len(seq) : seq[p] = x

(* lines 224-226: push the neighbours the seed set does not hold yet *)
RECURSIVE PushNew(_, _)
PushNew(seeds, nns) ==
    IF nns = <<>> THEN seeds
    ELSE PushNew(IF Includes(seeds, Head(nns)) THEN seeds
                 ELSE Append(seeds, Head(nns)),
                 Tail(nns))

ClaimNoiseMutant(label, cid) == label

(* lines 211-213: a noise point becomes a border point of the cluster *)
ClaimNoise(label, cid) == IF label = Noise THEN cid ELSE label

NormalizeLabelMutant(l) == l - 1

(* line 233 *)
NormalizeLabel(l) == IF l = Noise THEN Noise ELSE l - 1

(* A core point next to three border points that an earlier cluster's core *)
(* point also reaches: positions 1 | 0 0 | 2 | 3 | 4 4 on a line.          *)
ContestedVectors == << <<1>>, <<0>>, <<0>>, <<2>>, <<3>>, <<4>>, <<4>> >>

DbscanInputs ==
    { [vectors |-> vs, epsilon |-> eps, minPts |-> mp] :
        vs \in Collections(Vectors1D),
        eps \in -1 .. MaxEps,
        mp \in 0 .. MaxMinPts }
    \cup
    { [vectors |-> E2EVectors, epsilon |-> 10, minPts |-> 2],
      [vectors |-> ContestedVectors, epsilon |-> 1, minPts |-> 4] }

(* lines 175-177 *)
DbscanInit ==
    \E inp \in DbscanInputs :
        /\ vectors = inp.vectors
        /\ epsilon = inp.epsilon
        /\ minPts = inp.minPts
        /\ labels = [i \in 1 .. Len(inp.vectors) |-> Undefined]
        /\ clusterId = 0
        /\ dbI = 0
        /\ seedSet = <<>>
        /\ dbJ = 0
        /\ dbPc = "outer"
        /\ dbResult = <<>>
        /\ KMeansIdle
        /\ KernelIdle
        /\ PrimitivesIdle
        /\ MetricsIdle
        /\ SomIdle
        /\ AnalysisIdle
        /\ magnitude = 0

(* lines 192-207: one round of the outer loop, up to the expansion *)
DbscanVisit ==
    /\ dbPc = "outer"
    /\ dbI < Len(vectors)
    /\ LET neighbors == GetNeighbors(vectors, epsilon, dbI)
       IN  IF At(labels, dbI) # Undefined
           THEN /\ dbI' = dbI + 1
                /\ UNCHANGED <<labels, clusterId, seedSet, dbJ, dbPc>>
           ELSE IF IsNoise(neighbors, minPts)
           THEN /\ labels' = [labels EXCEPT ![dbI + 1] = Noise]
                /\ dbI' = dbI + 1
                /\ UNCHANGED <<clusterId, seedSet, dbJ, dbPc>>
           ELSE /\ clusterId' = clusterId + 1
                /\ labels' = [labels EXCEPT ![dbI + 1] = clusterId + 1]
                /\ seedSet' = neighbors
                /\ dbJ' = 0
                /\ dbPc' = "expand"
                /\ dbI' = dbI
    /\ UNCHANGED <<vectors, epsilon, minPts, dbResult, notDbVars>>

(* lines 208-228: one seed of the expansion *)
DbscanExpand ==
    /\ dbPc = "expand"
    /\ dbJ < Len(seedSet)
    /\ LET neighborIdx == At(seedSet, dbJ)
           claimed == ClaimNoise(At(labels, neighborIdx), clusterId)
           neighborNeighbors == GetNeighbors(vectors, epsilon, neighborIdx)
       IN  IF claimed # Undefined
           THEN /\ labels' = [labels EXCEPT ![neighborIdx + 1] = claimed]
                /\ seedSet' = seedSet
           ELSE /\ labels' = [labels EXCEPT ![neighborIdx + 1] = clusterId]
                /\ seedSet' = IF IsCore(neighborNeighbors, minPts)
                              THEN PushNew(seedSet, neighborNeighbors)
                              ELSE seedSet
    /\ dbJ' = dbJ + 1
    /\ UNCHANGED <<vectors, epsilon, minPts, clusterId, dbI, dbPc, dbResult, notDbVars>>

(* line 208, the loop's end: on to the next point *)
DbscanExpanded ==
    /\ dbPc = "expand"
    /\ ~(dbJ < Len(seedSet))
    /\ dbI' = dbI + 1
    /\ dbPc' = "outer"
    /\ UNCHANGED <<vectors, epsilon, minPts, labels, clusterId, seedSet, dbJ,
                   dbResult, notDbVars>>

(* line 233 *)
DbscanReturn ==
    /\ dbPc = "outer"
    /\ ~(dbI < Len(vectors))
    /\ dbResult' = [p \in 1 .. Len(labels) |-> NormalizeLabel(labels[p])]
    /\ dbPc' = "done"
    /\ UNCHANGED <<vectors, epsilon, minPts, labels, clusterId, dbI, seedSet, dbJ,
                   notDbVars>>

DbscanNext ==
    \/ DbscanVisit
    \/ DbscanExpand
    \/ DbscanExpanded
    \/ DbscanReturn

SpecDbscan == DbscanInit /\ [][DbscanNext]_vars

---------------------------------------------------------------------------
(* computeKernelMatrix *)

Vectors2D == { <<a, b>> : a \in 0 .. 1, b \in 0 .. 1 }

KernelVectors == { <<c>> : c \in -1 .. MaxCoord } \cup Vectors2D

DiagonalCellMutant(vs, i) == CosineSimilarityKernel(At(vs, i), At(vs, i)).value

(* line 63: matrix[i][j] = 1.0 *)
DiagonalCell(vs, i) == SimOne

SetCell(m, i, j, v) == [m EXCEPT ![i + 1][j + 1] = v]

(* lines 57-58 *)
KernelInit ==
    \E vs \in Collections(KernelVectors) :
        /\ vectors = vs
        /\ matrix = [i \in 1 .. Len(vs) |-> [j \in 1 .. Len(vs) |-> SimZero]]
        /\ kerI = 0
        /\ kerJ = 0
        /\ kerPc = "loop"
        /\ kerResult = <<>>
        /\ kerError = ""
        /\ KMeansIdle
        /\ DbscanIdle
        /\ PrimitivesIdle
        /\ MetricsIdle
        /\ SomIdle
        /\ AnalysisIdle
        /\ magnitude = 0

(* lines 60-70: one cell (i, j) of the upper triangle, then the next one *)
KernelCell ==
    /\ kerPc = "loop"
    /\ kerI < Len(vectors)
    /\ LET sim == CosineSimilarityKernel(At(vectors, kerI), At(vectors, kerJ))
           last == kerJ + 1 >= Len(vectors)
       IN  IF kerI = kerJ
           THEN /\ matrix' = SetCell(matrix, kerI, kerJ, DiagonalCell(vectors, kerI))
                /\ kerI' = IF last THEN kerI + 1 ELSE kerI
                /\ kerJ' = IF last THEN kerI + 1 ELSE kerJ + 1
                /\ UNCHANGED <<kerPc, kerError>>
           ELSE IF sim.thrown
           THEN /\ kerPc' = "thrown"
                /\ kerError' = DimensionError
                /\ UNCHANGED <<matrix, kerI, kerJ>>
           ELSE /\ matrix' = SetCell(SetCell(matrix, kerI, kerJ, sim.value),
                                     kerJ, kerI, sim.value)
                /\ kerI' = IF last THEN kerI + 1 ELSE kerI
                /\ kerJ' = IF last THEN kerI + 1 ELSE kerJ + 1
                /\ UNCHANGED <<kerPc, kerError>>
    /\ UNCHANGED <<vectors, kerResult, notKerVars>>

(* line 71 *)
KernelReturn ==
    /\ kerPc = "loop"
    /\ ~(kerI < Len(vectors))
    /\ kerResult' = matrix
    /\ kerPc' = "done"
    /\ UNCHANGED <<vectors, matrix, kerI, kerJ, kerError, notKerVars>>

KernelNext ==
    \/ KernelCell
    \/ KernelReturn

SpecKernel == KernelInit /\ [][KernelNext]_vars

---------------------------------------------------------------------------
(* A call of euclideanDistance or of cosineSimilarityKernel on two vectors *)

PrimVectors ==
    { <<c>> : c \in -1 .. MaxCoord } \cup
    { <<a, b>> : a \in -1 .. MaxCoord, b \in -1 .. MaxCoord }

PrimitivesInit ==
    /\ vectors = <<>>
    /\ argA \in PrimVectors
    /\ argB \in PrimVectors
    /\ primPc = "call"
    /\ primDist = Infinity
    /\ primCos = FloatZero
    /\ primError = ""
    /\ KMeansIdle /\ DbscanIdle /\ KernelIdle /\ MetricsIdle /\ SomIdle
    /\ AnalysisIdle
    /\ magnitude = 0

(* euclideanDistance(argA, argB), lines 44-51 *)
CallEuclideanDistance ==
    /\ primPc = "call"
    /\ primDist' = EuclideanDistance(Rat(argA), Rat(argB))
    /\ primPc' = "distance"
    /\ UNCHANGED <<argA, argB, primCos, primError, notPrimVars>>

(* cosineSimilarityKernel(argA, argB), lines 6-24 *)
CallCosineSimilarityKernel ==
    /\ primPc = "call"
    /\ IF CosineSimilarityKernel(argA, argB).thrown
       THEN /\ primPc' = "thrown"
            /\ primError' = DimensionError
            /\ UNCHANGED primCos
       ELSE /\ primPc' = "cosine"
            /\ primCos' = CosineSimilarityNumber(argA, argB)
            /\ UNCHANGED primError
    /\ UNCHANGED <<argA, argB, primDist, notPrimVars>>

PrimitivesNext ==
    \/ CallEuclideanDistance
    \/ CallCosineSimilarityKernel

SpecPrimitives == PrimitivesInit /\ [][PrimitivesNext]_vars

---------------------------------------------------------------------------
(* calculateClusteringMetrics *)

(* line 411: the labels in order of first occurrence, -1 filtered out *)
UniqueClusters(labs) ==
    LET F[i \in 0 .. Len(labs)] ==
            IF i = 0 THEN <<>>
            ELSE IF labs[i] = -1 \/ Includes(F[i - 1], labs[i]) THEN F[i - 1]
            ELSE Append(F[i - 1], labs[i])
    IN  F[Len(labs)]

(* the positions (from 1) of the points labelled c, in order *)
ClusterIndices(labs, c) ==
    SelectSeq([i \in 1 .. Len(labs) |-> i], LAMBDA i : labs[i] = c)

(* the values f[x] of the elements x of xs, in order *)
Each(xs, f) == [p \in 1 .. Len(xs) |-> f[xs[p]]]

(* sum += x over the numbers of xs, in order, from 0 *)
SumOver(xs) ==
    LET F[i \in 0 .. Len(xs)] ==
            IF i = 0 THEN Zero ELSE NumAdd(F[i - 1], xs[i])
    IN  F[Len(xs)]

(* lines 245-255: the Map from each label to the mean of its vectors *)
GetClusterCentroids(vs, labs, uniqueClusters) ==
    [c \in {uniqueClusters[p] : p \in 1 .. Len(uniqueClusters)} |->
        LET clusterVectors == SelectSeqIdx(vs, labs, c)
        IN  DivideVector(AddVectors(ZeroVector(Len(vs[1])), clusterVectors),
                         Len(clusterVectors))]

SkipsSingletonMutant(sameClusterCount) == FALSE

(* line 299: if (sameClusterCount === 0) continue *)
SkipsSingleton(sameClusterCount) == sameClusterCount = 0

(* lines 269-318 for the point at position i: whether it is scored, and s *)
SilhouetteOf(vs, labs, i) ==
    LET currentCluster == labs[i]
        dist == [j \in 1 .. Len(vs) |-> Distance(Rat(vs[i]), Rat(vs[j]))]
        others(c) == SelectSeq(ClusterIndices(labs, c), LAMBDA j : j # i)
        sameClusterCount == Len(others(currentCluster))
        a == NumDiv(SumOver(Each(others(currentCluster), dist)),
                    Whole(sameClusterCount))
        otherLabels == SelectSeq(UniqueClusters(labs),
                                 LAMBDA c : c # currentCluster)
        meanDist(c) == NumDiv(SumOver(Each(others(c), dist)),
                              Whole(Len(others(c))))
        Least[p \in 0 .. Len(otherLabels)] ==
            IF p = 0 THEN PosInf
            ELSE IF NumLess(meanDist(otherLabels[p]), Least[p - 1])
            THEN meanDist(otherLabels[p])
            ELSE Least[p - 1]
        minMeanDistOther == Least[Len(otherLabels)]
        b == IF minMeanDistOther = PosInf THEN Zero ELSE minMeanDistOther
        maxAB == NumMax(a, b)
    IN  IF currentCluster = -1 \/ SkipsSingleton(sameClusterCount)
        THEN [scored |-> FALSE, s |-> Zero]
        ELSE [scored |-> TRUE,
              s |-> IF maxAB = Zero THEN Zero ELSE NumDiv(NumSub(b, a), maxAB)]

(* calculateSilhouetteScore, lines 262-325 *)
CalculateSilhouetteScore(vs, labs) ==
    IF Len(vs) < 2 THEN Zero
    ELSE LET scored == SelectSeq([i \in 1 .. Len(vs) |-> i],
                                 LAMBDA i : SilhouetteOf(vs, labs, i).scored)
             s == [i \in 1 .. Len(vs) |-> SilhouetteOf(vs, labs, i).s]
             totalScore == SumOver(Each(scored, s))
             validPoints == Len(scored)
         IN  IF validPoints > 0 THEN NumDiv(totalScore, Whole(validPoints))
             ELSE Zero

TooFewClustersMutant(uniqueClusters) == FALSE

(* line 332: if (uniqueClusters.length < 2) return 0 *)
TooFewClusters(uniqueClusters) == Len(uniqueClusters) < 2

(* calculateDaviesBouldinIndex, lines 331-366 *)
CalculateDaviesBouldinIndex(vs, labs, uniqueClusters, cents) ==
    IF TooFewClusters(uniqueClusters) THEN Zero
    ELSE LET scatter(c) ==
                 LET clusterIndices == ClusterIndices(labs, c)
                     toCentroid == [idx \in 1 .. Len(vs) |->
                                       Distance(Rat(vs[idx]), cents[c])]
                 IN  NumDiv(SumOver(Each(clusterIndices, toCentroid)),
                            Whole(Len(clusterIndices)))
             distCentroids(i, j) == Distance(cents[i], cents[j])
             R(i, j) == NumDiv(NumAdd(scatter(i), scatter(j)), distCentroids(i, j))
             maxR(i) ==
                 LET M[p \in 0 .. Len(uniqueClusters)] ==
                         IF p = 0 THEN NegInf
                         ELSE LET j == uniqueClusters[p]
                              IN  IF i = j \/ distCentroids(i, j) = Zero
                                  THEN M[p - 1]
                                  ELSE IF NumLess(M[p - 1], R(i, j)) THEN R(i, j)
                                  ELSE M[p - 1]
                 IN  M[Len(uniqueClusters)]
             counted == SelectSeq(uniqueClusters, LAMBDA i : maxR(i) # NegInf)
             sumMaxR == SumOver([p \in 1 .. Len(counted) |-> maxR(counted[p])])
         IN  NumDiv(sumMaxR, Whole(Len(uniqueClusters)))

(* lines 378-380: the mean of all the vectors *)
GlobalCentroid(vs) ==
    DivideVector(AddVectors(ZeroVector(Len(vs[1])), vs), Len(vs))

(* lines 392-399: the sum of the squared distances to the own centroid *)
WithinSumOfSquares(vs, labs, uniqueClusters, cents) ==
    LET ofCluster(c) ==
            LET square == [idx \in 1 .. Len(vs) |->
                              NumMul(Distance(Rat(vs[idx]), cents[c]),
                                     Distance(Rat(vs[idx]), cents[c]))]
            IN  SumOver(Each(ClusterIndices(labs, c), square))
    IN  SumOver([p \in 1 .. Len(uniqueClusters) |-> ofCluster(uniqueClusters[p])])

(* calculateCalinskiHarabaszIndex, lines 372-404 *)
CalculateCalinskiHarabaszIndex(vs, labs, uniqueClusters, cents) ==
    LET N == Len(SelectSeq(labs, LAMBDA l : l # -1))
        K == Len(uniqueClusters)
    IN  IF K < 2 \/ N <= K THEN Zero
        ELSE LET globalCentroid == GlobalCentroid(vs)
                 between(c) ==
                     LET nk == Len(ClusterIndices(labs, c))
                         dist == Distance(cents[c], globalCentroid)
                     IN  NumMul(Whole(nk), NumMul(dist, dist))
                 SS_B == SumOver([p \in 1 .. Len(uniqueClusters) |->
                                     between(uniqueClusters[p])])
                 SS_W == WithinSumOfSquares(vs, labs, uniqueClusters, cents)
             IN  IF SS_W = Zero THEN Zero
                 ELSE NumDiv(NumDiv(SS_B, Whole(K - 1)), NumDiv(SS_W, Whole(N - K)))

(* lines 406-419 *)
ClusteringMetrics(vs, labs) ==
    LET uniqueClusters == UniqueClusters(labs)
        cents == GetClusterCentroids(vs, labs, uniqueClusters)
    IN  [silhouetteScore |-> CalculateSilhouetteScore(vs, labs),
         daviesBouldinIndex |->
             CalculateDaviesBouldinIndex(vs, labs, uniqueClusters, cents),
         calinskiHarabaszIndex |->
             CalculateCalinskiHarabaszIndex(vs, labs, uniqueClusters, cents)]

(* the inputs: up to MaxPoints vectors <<0>> or <<1>>, in units of 1 or of *)
(* 2^HugeExponent, each labelled noise or one of three clusters            *)
MetricsInit ==
    /\ \E n \in 0 .. MaxPoints :
          /\ vectors \in [1 .. n -> { <<c>> : c \in 0 .. 1 }]
          /\ labeling \in [1 .. n -> -1 .. 2]
    /\ magnitude \in {0, HugeExponent}
    /\ metPc = "call"
    /\ metResult = [silhouetteScore |-> Zero, daviesBouldinIndex |-> Zero,
                    calinskiHarabaszIndex |-> Zero]
    /\ KMeansIdle /\ DbscanIdle /\ KernelIdle /\ PrimitivesIdle /\ SomIdle
    /\ AnalysisIdle

CalculateClusteringMetrics ==
    /\ metPc = "call"
    /\ metResult' = ClusteringMetrics(vectors, labeling)
    /\ metPc' = "done"
    /\ UNCHANGED <<vectors, labeling, magnitude, notMetVars>>

MetricsNext == CalculateClusteringMetrics

SpecMetrics == MetricsInit /\ [][MetricsNext]_vars

---------------------------------------------------------------------------
(* The self-organizing map (class SOM): a grid of width x height cells,    *)
(* each with a prototype of inputDim numbers.  The maps of the model have  *)
(* inputDim = 1, so that every distance is a fraction.                     *)

GridSizes == { <<1, 1>>, <<2, 1>>, <<1, 2>>, <<2, 2>>, <<3, 1>>, <<1, 3>> }

(* line 19: Math.random() - 0.5, a number of [-0.5, 0.5) *)
InitialWeights == { Num(-1, 2, 0), Num(1, 4, 0) }

(* the input vectors: <<-1>>, <<0>> and <<1>>, in units of 2^magnitude *)
SomInputs == { <<Num(c, 1, 1)>> : c \in -1 .. 1 }

(* the arguments of findBMU *)
Probes == SomInputs

DataSets == UNION { [1 .. n -> SomInputs] : n \in 0 .. MaxData }

(* startLearningRate: 0.5 is the default *)
LearningRates == { Num(1, 2, 0), Whole(1) }

(* the cells in the order of the two nested loops: x, then y *)
Cells(wd, ht) ==
    [p \in 1 .. wd * ht |-> [x |-> (p - 1) \div ht, y |-> (p - 1) % ht]]

(* line 77: if (dist < minDist) *)
Closer(dist, minDist) == NumLess(dist, minDist)

(* findBMU, lines 70-84 *)
FindBMU(wts, wd, ht, input) ==
    LET cells == Cells(wd, ht)
        Scan[p \in 0 .. Len(cells)] ==
            IF p = 0 THEN [minDist |-> PosInf, bmu |-> [x |-> 0, y |-> 0]]
            ELSE LET dist == NumDistance(input, wts[cells[p].x][cells[p].y])
                 IN  IF Closer(dist, Scan[p - 1].minDist)
                     THEN [minDist |-> dist, bmu |-> cells[p]]
                     ELSE Scan[p - 1]
    IN  Scan[Len(cells)].bmu

Largest(a, b) == IF a < b THEN b ELSE a

(* line 50: distToBMU < radius.  radius starts at max(width, height) / 2   *)
(* (line 35).  On the maps that the model trains, width and height are at  *)
(* most 2: radius is 1/2 and grows (timeConstant is negative), or it is 1  *)
(* and stays 1 (timeConstant is Infinity, Math.exp(-0) is 1), so that the  *)
(* comparison with the first radius decides.                               *)
InRadius(x, y, b, wd, ht) ==
    4 * ((x - b.x) * (x - b.x) + (y - b.y) * (y - b.y))
        < Largest(wd, ht) * Largest(wd, ht)

(* line 52: Math.exp(-(distToBMU ** 2) / (2 * radius ** 2)) at the only    *)
(* cell inside the radius, the BMU itself: Math.exp(-0) = 1                *)
Theta(x, y, b) == Whole(1)

(* The radius of iteration i.  It starts at radius0 = max(width, height) /  *)
(* 2 (line 35), timeConstant is iterations / ln(radius0) (line 36), and    *)
(* line 64 multiplies it by exp(-1 / timeConstant) after each iteration,   *)
(* that is by radius0 to the power -1 / iterations: the radius of          *)
(* iteration i is radius0 to the power (iterations - i) / iterations, kept *)
(* as twice radius0 and the two terms of that power.  When radius0 is 1,   *)
(* ln(radius0) is 0, timeConstant is Infinity and the factor is exp(-0).   *)
RadiusAt(wd, ht, i, iters) ==
    [twice |-> Largest(wd, ht), left |-> iters - i, of |-> iters]

(* a < b for two radii of one map: a power of radius0 grows with its       *)
(* exponent when radius0 is above 1, falls when it is below, and is 1 when *)
(* radius0 is 1                                                            *)
RadiusLess(a, b) ==
    IF a.twice > 2 THEN a.left * b.of < b.left * a.of
    ELSE IF a.twice = 2 THEN FALSE
    ELSE a.left * b.of > b.left * a.of

LearningRateMutant(start, i, iters) ==
    NumMul(start, NumSub(Whole(1), NumDiv(Whole(i + 1), Whole(iters))))

(* the learningRate of iteration i: startLearningRate, then line 66 *)
LearningRate(start, i, iters) ==
    IF i = 0 THEN start
    ELSE NumMul(start, NumSub(Whole(1), NumDiv(Whole(i - 1), Whole(iters))))

(* lines 43-61: one iteration on the input *)
UpdateWeights(wts, wd, ht, dim, input, learningRate) ==
    LET b == FindBMU(wts, wd, ht, input)
    IN  [x \in 0 .. wd - 1 |-> [y \in 0 .. ht - 1 |->
            IF InRadius(x, y, b, wd, ht)
            THEN LET influence == NumMul(Theta(x, y, b), learningRate)
                 IN  [d \in 1 .. dim |->
                        NumAdd(wts[x][y][d],
                               NumMul(influence, NumSub(input[d], wts[x][y][d])))]
            ELSE wts[x][y]]]

(* lines 38-67: the loop, picks[i] the input drawn at iteration i - 1 *)
TrainLoop(wts, wd, ht, dim, data, iters, start, picks) ==
    LET W[i \in 0 .. iters] ==
            IF i = 0 THEN wts
            ELSE UpdateWeights(W[i - 1], wd, ht, dim, data[picks[i]],
                               LearningRate(start, i - 1, iters))
    IN  W[iters]

(* lines 33-36, 64, 66: the radius and the learningRate of each iteration *)
Schedule(wd, ht, iters, start) ==
    [i \in 1 .. iters |->
        [radius |-> RadiusAt(wd, ht, i - 1, iters),
         learningRate |-> LearningRate(start, i - 1, iters)]]

(* the four neighbours of lines 100-103, in order *)
Neighbors ==
    << [dx |-> 0, dy |-> -1], [dx |-> 0, dy |-> 1],
       [dx |-> -1, dy |-> 0], [dx |-> 1, dy |-> 0] >>

(* lines 94-113: the mean distance to the neighbours that exist, else 0 *)
MeanNeighborDistance(wts, wd, ht, x, y) ==
    LET inside == SelectSeq(Neighbors,
                            LAMBDA n : /\ x + n.dx >= 0 /\ x + n.dx < wd
                                       /\ y + n.dy >= 0 /\ y + n.dy < ht)
        sumDist == SumOver([p \in 1 .. Len(inside) |->
                       NumDistance(wts[x][y],
                                   wts[x + inside[p].dx][y + inside[p].dy])])
        count == Len(inside)
    IN  IF count > 0 THEN NumDiv(sumDist, Whole(count)) ELSE Zero

(* line 129: max - min || 1 (0 and NaN are falsy) *)
Denominator(max, min) ==
    IF NumSub(max, min).nan \/ NumSub(max, min) = Zero THEN Whole(1)
    ELSE NumSub(max, min)

(* getUMatrix, lines 91-133 *)
GetUMatrix(wts, wd, ht) ==
    LET cells == Cells(wd, ht)
        raw == [x \in 0 .. wd - 1 |-> [y \in 0 .. ht - 1 |->
                   MeanNeighborDistance(wts, wd, ht, x, y)]]
        Ext[p \in 0 .. Len(cells)] ==
            IF p = 0 THEN [max |-> Zero, min |-> PosInf]
            ELSE LET u == raw[cells[p].x][cells[p].y]
                 IN  [max |-> IF NumLess(Ext[p - 1].max, u) THEN u
                              ELSE Ext[p - 1].max,
                      min |-> IF NumLess(u, Ext[p - 1].min) THEN u
                              ELSE Ext[p - 1].min]
        max == Ext[Len(cells)].max
        min == Ext[Len(cells)].min
    IN  [x \in 0 .. wd - 1 |-> [y \in 0 .. ht - 1 |->
            NumDiv(NumSub(raw[x][y], min), Denominator(max, min))]]

(* the units of the inputs of a map: beyond the range of the square of a   *)
(* difference for the maps of one or two cells, at the top of the range of *)
(* binary64 for the map of one cell                                        *)
Magnitudes(size) ==
    IF size[1] * size[2] = 1 THEN {0, HugeExponent, TopExponent}
    ELSE IF size[1] * size[2] = 2 THEN {0, HugeExponent}
    ELSE {0}

(* new SOM(width, height, 1), lines 9-22 *)
SomInit ==
    /\ \E size \in GridSizes :
          /\ magnitude \in Magnitudes(size)
          /\ width = size[1]
          /\ height = size[2]
          /\ weights \in [0 .. size[1] - 1 ->
                            [0 .. size[2] - 1 -> [1 .. 1 -> InitialWeights]]]
    /\ inputDim = 1
    /\ trained = FALSE
    /\ retrained = FALSE
    /\ trainedOn = {}
    /\ trainArgs = NoArgs
    /\ schedule = <<>>
    /\ somPc = "constructed"
    /\ somInput = <<>>
    /\ bmu = [x |-> 0, y |-> 0]
    /\ uMatrix = <<>>
    /\ vectors = <<>>
    /\ KMeansIdle /\ DbscanIdle /\ KernelIdle /\ PrimitivesIdle /\ MetricsIdle
    /\ AnalysisIdle

EmptyDataMutant(data) == FALSE

(* line 31: if (data.length === 0) return *)
EmptyData(data) == Len(data) = 0

(* train(data, iterations, startLearningRate), lines 30-68.  With no data  *)
(* line 40 would read data[0], undefined, and findBMU would raise on it.   *)
(* A map of width or height 3 is trained with no iteration only: the       *)
(* influence on a neighbour of the BMU is not a fraction.  The model runs  *)
(* the loop in one train call of a map, and in a second one, on one        *)
(* vector, of the map of one cell; the other calls have no data.           *)
Train ==
    /\ somPc # "idle"
    /\ \E data \in DataSets, iters \in 0 .. MaxIter, start \in LearningRates :
          IF EmptyData(data)
          THEN /\ somPc' = "skipped"
               /\ trainArgs' = NoArgs
               /\ schedule' = <<>>
               /\ UNCHANGED <<weights, trained, retrained, trainedOn>>
          ELSE IF Len(data) = 0
          THEN /\ somPc' = IF iters > 0 THEN "thrown" ELSE "skipped"
               /\ trainArgs' = NoArgs
               /\ schedule' = <<>>
               /\ UNCHANGED <<weights, trained, retrained, trainedOn>>
          ELSE /\ \/ ~trained
                  \/ width * height = 1 /\ ~retrained /\ Len(data) = 1
               /\ Largest(width, height) <= 2 \/ iters = 0
               /\ \E picks \in [1 .. iters -> 1 .. Len(data)] :
                     weights' = TrainLoop(weights, width, height, inputDim,
                                          data, iters, start, picks)
               /\ trainedOn' = trainedOn \cup { data[p] : p \in 1 .. Len(data) }
               /\ trainArgs' = [data |-> data, iterations |-> iters,
                                startLearningRate |-> start]
               /\ schedule' = Schedule(width, height, iters, start)
               /\ trained' = TRUE
               /\ retrained' = trained
               /\ somPc' = "trained"
    /\ somInput' = <<>>
    /\ bmu' = [x |-> 0, y |-> 0]
    /\ uMatrix' = <<>>
    /\ UNCHANGED <<magnitude, width, height, inputDim, notSomVars>>

(* a call of findBMU(input) *)
CallFindBMU ==
    /\ somPc # "idle"
    /\ \E input \in Probes :
          /\ somInput' = input
          /\ bmu' = FindBMU(weights, width, height, input)
    /\ somPc' = "bmu"
    /\ uMatrix' = <<>>
    /\ trainArgs' = NoArgs
    /\ schedule' = <<>>
    /\ UNCHANGED <<magnitude, width, height, inputDim, weights, trained,
                   retrained, trainedOn, notSomVars>>

(* a call of getUMatrix() *)
CallGetUMatrix ==
    /\ somPc # "idle"
    /\ uMatrix' = GetUMatrix(weights, width, height)
    /\ somPc' = "umatrix"
    /\ somInput' = <<>>
    /\ bmu' = [x |-> 0, y |-> 0]
    /\ trainArgs' = NoArgs
    /\ schedule' = <<>>
    /\ UNCHANGED <<magnitude, width, height, inputDim, weights, trained,
                   retrained, trainedOn, notSomVars>>

SomNext ==
    \/ Train
    \/ CallFindBMU
    \/ CallGetUMatrix

SpecSom == SomInit /\ [][SomNext]_vars

---------------------------------------------------------------------------
(* The analysis of KernelAnalysis (services/geminiService.ts, lines        *)
(* 1351-1418): the kernel matrix of the embeddings, its greedy reordering, *)
(* the statistics of its values and the separability index.  Every number  *)
(* is the binary64 number the code computes.                               *)

(* the embeddings of the model *)
CommonVectors == { <<3, 3>>, <<-3, -3>>, <<-1, -1>> }

AnalysisVectors == CommonVectors \cup { <<1, 0>>, <<0, 1>> }

(* the libraries: up to MaxPapers of the common embeddings, and the five   *)
(* embeddings in every order from <<1, 0>> to <<0, 1>>                     *)
Libraries ==
    UNION { [1 .. n -> CommonVectors] : n \in 1 .. MaxPapers } \cup
    { lib \in [1 .. Cardinality(AnalysisVectors) -> AnalysisVectors] :
        /\ lib[1] = <<1, 0>>
        /\ lib[Len(lib)] = <<0, 1>>
        /\ \A i, j \in DOMAIN lib : i # j => lib[i] # lib[j] }

(* cosineSimilarityKernel on each pair of embeddings, computed once *)
SimilarityTable ==
    { <<a, b, CosineSimilarityNumber(a, b)>> :
        a \in AnalysisVectors, b \in AnalysisVectors }

Similarity(a, b) ==
    (CHOOSE entry \in SimilarityTable : entry[1] = a /\ entry[2] = b)[3]

(* computeKernelMatrix (mathUtils, lines 56-72) as the numbers it returns: *)
(* the cell of i < j is computed, and copied to the cell of j, i           *)
ComputeKernelMatrix(vs) ==
    [i \in 1 .. Len(vs) |-> [j \in 1 .. Len(vs) |->
        IF i = j THEN FloatOne
        ELSE IF i < j THEN Similarity(vs[i], vs[j])
        ELSE Similarity(vs[j], vs[i])]]

(* values.reduce((a, b) => a + b, 0) *)
FloatSum(values) ==
    LET F[i \in 0 .. Len(values)] ==
            IF i = 0 THEN FloatZero ELSE FloatAdd(F[i - 1], values[i])
    IN  F[Len(values)]

(* Math.min(...values) and Math.max(...values) of one value or more *)
FloatMin(values) ==
    LET F[i \in 1 .. Len(values)] ==
            IF i = 1 THEN values[1]
            ELSE LET least == F[i - 1]
                 IN  IF FloatLess(values[i], least) THEN values[i] ELSE least
    IN  F[Len(values)]

FloatMax(values) ==
    LET F[i \in 1 .. Len(values)] ==
            IF i = 1 THEN values[1]
            ELSE LET largest == F[i - 1]
                 IN  IF FloatLess(largest, values[i]) THEN values[i] ELSE largest
    IN  F[Len(values)]

(* calculateStats (mathUtils, lines 77-91) *)
CalculateStats(values) ==
    IF Len(values) = 0 THEN NoStats
    ELSE LET sum == FloatSum(values)
             mean == FloatQuotient(sum, FloatOfInt(Len(values)))
             squares == [i \in 1 .. Len(values) |->
                            FloatProduct(FloatSub(values[i], mean),
                                     FloatSub(values[i], mean))]
             variance == FloatQuotient(FloatSum(squares), FloatOfInt(Len(values)))
         IN  [mean |-> mean, variance |-> variance, min |-> FloatMin(values),
              max |-> FloatMax(values)]

(* [...row].sort((a, b) => b - a): the values of the row, largest first *)
SortDescending(row) ==
    LET Insert(sorted, v) ==
            LET before == SelectSeq(sorted, LAMBDA w : ~FloatLess(w, v))
                after == SelectSeq(sorted, LAMBDA w : FloatLess(w, v))
            IN  before \o <<v>> \o after
        F[i \in 0 .. Len(row)] ==
            IF i = 0 THEN <<>> ELSE Insert(F[i - 1], row[i])
    IN  F[Len(row)]

AnalysisInit ==
    /\ vectors \in Libraries
    /\ rawMatrix = <<>> /\ indices = <<>> /\ visited = {}
    /\ sortedMatrix = <<>> /\ flatValues = <<>> /\ stats = NoStats
    /\ separabilityIndex = FloatZero
    /\ anPc = "call"
    /\ magnitude = 0
    /\ KMeansIdle /\ DbscanIdle /\ KernelIdle /\ PrimitivesIdle /\ MetricsIdle
    /\ SomIdle

(* lines 1352-1361: vectors are the embeddings of validPapers *)
AnalysisEnter ==
    /\ anPc = "call"
    /\ IF Len(vectors) < 2
       THEN /\ anPc' = "null"
            /\ UNCHANGED <<rawMatrix, indices, visited>>
       ELSE /\ rawMatrix' = ComputeKernelMatrix(vectors)
            /\ indices' = <<0>>
            /\ visited' = {0}
            /\ anPc' = "loop"
    /\ UNCHANGED <<vectors, sortedMatrix, flatValues, stats, separabilityIndex,
                   notAnVars>>

(* line 1366: let maxSim = -1 *)
SimilarityFloor == FloatOfInt(-1)

BetterMutant(sim, maxSim) == ~FloatLess(sim, maxSim)

(* line 1370: rawMatrix[current][i] > maxSim *)
Better(sim, maxSim) == FloatLess(maxSim, sim)

(* lines 1364-1382: the index appended after current *)
BestNext(raw, seen, current) ==
    LET n == Len(raw)
        Scan[i \in 0 .. n] ==
            IF i = 0 THEN [bestNext |-> -1, maxSim |-> SimilarityFloor]
            ELSE LET best == Scan[i - 1]
                 IN  IF i - 1 \notin seen
                        /\ Better(At(At(raw, current), i - 1), best.maxSim)
                     THEN [bestNext |-> i - 1,
                           maxSim |-> At(At(raw, current), i - 1)]
                     ELSE best
        unvisited == { i \in 0 .. n - 1 : i \notin seen }
    IN  IF Scan[n].bestNext # -1 THEN Scan[n].bestNext
        ELSE IF unvisited = {} THEN -1
        ELSE CHOOSE i \in unvisited : \A j \in unvisited : i <= j

(* one iteration of the while loop, lines 1363-1386 *)
GreedyStep ==
    /\ anPc = "loop"
    /\ Len(indices) < Len(vectors)
    /\ LET bestNext == BestNext(rawMatrix, visited, indices[Len(indices)])
       IN  /\ visited' = visited \cup {bestNext}
           /\ indices' = Append(indices, bestNext)
    /\ UNCHANGED <<vectors, rawMatrix, sortedMatrix, flatValues, stats,
                   separabilityIndex, anPc, notAnVars>>

(* lines 1404-1409, the columns j of the row at place i: the row is        *)
(* rawMatrix[indices[i]], and j is compared with the place i               *)
OtherColumns(n, i) == SelectSeq([j \in 1 .. n |-> j - 1], LAMBDA j : i # j)

LaterColumns(n, i) == SelectSeq([j \in 1 .. n |-> j - 1], LAMBDA j : i < j)

(* lines 1396-1411: top3Avg - globalAvg of the row at place i *)
RowSeparability(raw, order, i) ==
    LET n == Len(order)
        row == At(raw, At(order, i))
        rowValues == SortDescending(row)
        last == Min(4, Len(rowValues)) - 1
        top3Sum == FloatSum([p \in 1 .. last |-> At(rowValues, p)])
        divisor == IF Min(3, Len(rowValues) - 1) < 1 THEN 1
                   ELSE Min(3, Len(rowValues) - 1)
        top3Avg == FloatQuotient(top3Sum, FloatOfInt(divisor))
        others == OtherColumns(n, i)
        rowSum == FloatSum([p \in 1 .. Len(others) |-> At(row, others[p])])
        globalAvg == FloatQuotient(rowSum, FloatOfInt(n - 1))
    IN  FloatSub(top3Avg, globalAvg)

(* lines 1395-1409: the values pushed to flatValues, row after row *)
FlatValues(raw, order) ==
    LET n == Len(order)
        F[i \in 0 .. n] ==
            IF i = 0 THEN <<>>
            ELSE F[i - 1] \o
                 [p \in 1 .. Len(LaterColumns(n, i - 1)) |->
                     At(At(raw, At(order, i - 1)), LaterColumns(n, i - 1)[p])]
    IN  F[n]

(* lines 1388-1417, after the loop *)
Summarize ==
    /\ anPc = "loop"
    /\ Len(indices) >= Len(vectors)
    /\ LET n == Len(indices)
           separabilitySum ==
               FloatSum([p \in 1 .. n |-> RowSeparability(rawMatrix, indices, p - 1)])
       IN  /\ sortedMatrix' =
                  [i \in 1 .. n |-> [j \in 1 .. n |->
                      At(At(rawMatrix, indices[i]), indices[j])]]
           /\ flatValues' = FlatValues(rawMatrix, indices)
           /\ stats' = CalculateStats(flatValues')
           /\ separabilityIndex' = FloatQuotient(separabilitySum, FloatOfInt(n))
    /\ anPc' = "done"
    /\ UNCHANGED <<vectors, rawMatrix, indices, visited, notAnVars>>

AnalysisNext ==
    \/ AnalysisEnter
    \/ GreedyStep
    \/ Summarize

SpecAnalysis == AnalysisInit /\ [][AnalysisNext]_vars

(* the callback of useMemo is sequential code: once called it is entered,  *)
(* and an iteration of its while loop that can be run is run               *)
SpecAnalysisFair ==
    SpecAnalysis /\ WF_vars(AnalysisEnter) /\ WF_vars(GreedyStep)

---------------------------------------------------------------------------
(* The three clustering entry points, called on short collections *)

ClusteringInit ==
    /\ KMeansInit \/ DbscanInit \/ MetricsInit
    /\ Len(vectors) <= 2

ClusteringNext ==
    \/ KMeansNext
    \/ DbscanNext
    \/ MetricsNext

SpecClustering == ClusteringInit /\ [][ClusteringNext]_vars

---------------------------------------------------------------------------
(* Claims about kMeans *)

KMeansReturned == kmPc = "done"

InRange(labs, kk) == \A i \in Indices(labs) : At(labs, i) \in 0 .. (kk - 1)

SameGrouping(labs) ==
    /\ Len(labs) = 4
    /\ At(labs, 0) = At(labs, 1)
    /\ At(labs, 2) = At(labs, 3)
    /\ At(labs, 0) # At(labs, 2)

(* C1: for a non-empty collection of n vectors, 1 <= k < n and any         *)
(* maxIterations >= 0, kMeans returns exactly n labels, each an integer in *)
(* 0..k-1 (none is -1).                                                    *)
C1_LabelsInRange ==
    (KMeansReturned /\ Len(vectors) > 0 /\ 1 <= k /\ k < Len(vectors)
        /\ maxIterations >= 0)
    => (Len(kmResult) = Len(vectors) /\ InRange(kmResult, k))

(* C2: kMeans never raises, whatever the collection and the integer k      *)
(* (k = 0 and negative k with a non-empty collection included).            *)
C2_NeverRaises == kmPc # "thrown" /\ kmError = ""

(* C3: for a non-empty collection of n vectors and k >= n, kMeans returns  *)
(* the identity labeling (label of point i is i) for every maxIterations,  *)
(* and no random choice is made: nothing is sampled and no pass runs.      *)
C3_IdentityWhenKAtLeastN ==
    (Len(vectors) > 0 /\ k >= Len(vectors))
    => /\ kmPc \in {"call", "done"}
       /\ usedIndices = {} /\ centroids = <<>> /\ iterations = 0
       /\ KMeansReturned =>
            /\ Len(kmResult) = Len(vectors)
            /\ \A i \in Indices(vectors) : At(kmResult, i) = i

C3_Witness ==
    /\ KMeansReturned
    /\ Len(vectors) = 3 /\ k = 3
    /\ kmResult = <<0, 1, 2>>

(* C4: on the end-to-end vectors with k = 2 and the default iteration      *)
(* bound, whatever the two initial centroids and the reseeds, points 0 and *)
(* 1 share a label, points 2 and 3 share the other, and the two differ.    *)
C4_E2EGrouping ==
    (KMeansReturned /\ vectors = E2EVectors /\ k = 2
        /\ maxIterations = DefaultMaxIterations)
    => SameGrouping(kmResult)

C4_Witness ==
    /\ KMeansReturned /\ vectors = E2EVectors /\ k = 2
    /\ maxIterations = DefaultMaxIterations
    /\ usedIndices = {0, 1}
    /\ iterations > 1
    /\ SameGrouping(kmResult)

(* C24: for 1 <= k < n, kMeans always terminates: the initial sampling     *)
(* ends once k distinct indices have been drawn (under fair random draws), *)
(* the main loop performs at most maxIterations assignment passes, and it  *)
(* stops immediately after the first pass in which no point's label        *)
(* changed, whichever comes first.                                         *)
InScopeOfC24 == 1 <= k /\ k < Len(vectors)

C24_KMeansTerminates ==
    /\ InScopeOfC24 => <>KMeansReturned
    /\ [](InScopeOfC24 =>
            /\ kmPc = "sample" =>
                  Cardinality(usedIndices) = Len(centroids) /\ Len(centroids) <= k
            /\ kmPc \in {"loop", "done"} =>
                  /\ Cardinality(usedIndices) = k /\ Len(centroids) = k
                  /\ iterations <= maxIterations
            /\ KMeansReturned => ~changed \/ iterations = maxIterations)
    /\ [][InScopeOfC24 =>
            /\ kmPc = "sample" /\ kmPc' = "loop" =>
                  Cardinality(usedIndices) = k
            /\ iterations' # iterations =>
                  /\ iterations' = iterations + 1
                  /\ changed' = (assignments' # assignments)
            /\ kmPc = "loop" /\ ~changed =>
                  /\ KMeansReturned'
                  /\ iterations' = iterations
                  /\ kmResult' = assignments]_vars

(* a run stopped by a pass without a change before the bound, after a      *)
(* sampling that has drawn two indices                                     *)
C24_Witness ==
    /\ KMeansReturned
    /\ InScopeOfC24
    /\ Cardinality(usedIndices) = 2
    /\ ~changed /\ 1 < iterations /\ iterations < maxIterations

---------------------------------------------------------------------------
(* Claims about dbscan *)

DbscanReturned == dbPc = "done"

Points == Indices(vectors)

Within(p, q) ==
    DistAtMost(EuclideanDistance(Rat(At(vectors, p)), Rat(At(vectors, q))), epsilon)

(* a core point: at least minPts - 1 other points within epsilon of it *)
CorePoint(p) ==
    Cardinality({q \in Points : q # p /\ Within(p, q)}) >= minPts - 1

Members(c) == {p \in Points : At(dbResult, p) = c}

ClusterLabels == {At(dbResult, p) : p \in Points} \ {Noise}

(* C5: on the end-to-end vectors with epsilon = 0.1 and minPts = 2, dbscan *)
(* returns exactly two clusters of size 2, {0,1} and {2,3}, and labels no  *)
(* point -1.                                                               *)
C5_E2EDbscan ==
    (DbscanReturned /\ vectors = E2EVectors /\ epsilon = 10 /\ minPts = 2)
    => /\ Len(dbResult) = 4
       /\ \A p \in Points : At(dbResult, p) # Noise
       /\ {Members(c) : c \in ClusterLabels} = {{0, 1}, {2, 3}}

C5_Witness ==
    /\ DbscanReturned /\ vectors = E2EVectors /\ epsilon = 10 /\ minPts = 2
    /\ dbResult = <<0, 0, 1, 1>>

(* C6: dbscan returns exactly n labels, each -1 or in 0..C-1 where C is    *)
(* the number of clusters started, every value of 0..C-1 occurs, and no    *)
(* point is left in the internal undefined state.                          *)
C6_LabelsContiguous ==
    DbscanReturned
    => /\ Len(dbResult) = Len(vectors)
       /\ \A p \in Points :
            At(dbResult, p) = Noise \/ At(dbResult, p) \in 0 .. (clusterId - 1)
       /\ \A c \in 0 .. (clusterId - 1) : Members(c) # {}
       /\ \A p \in Points : At(labels, p) # Undefined

C6_Witness ==
    /\ DbscanReturned
    /\ clusterId = 1
    /\ \E p \in Points : At(dbResult, p) = Noise
    /\ Cardinality(Members(0)) = 2

(* C7: every point with a non-noise label is a core point or lies within   *)
(* epsilon of a core point carrying the same label, and every cluster      *)
(* label is carried by at least one core point.                            *)
C7_CoreOrBorder ==
    DbscanReturned
    => /\ \A p \in Points :
            At(dbResult, p) # Noise
            => \/ CorePoint(p)
               \/ \E q \in Points :
                    /\ CorePoint(q)
                    /\ Within(p, q)
                    /\ At(dbResult, q) = At(dbResult, p)
       /\ \A c \in ClusterLabels : \E p \in Members(c) : CorePoint(p)

C7_Witness ==
    /\ DbscanReturned
    /\ \E p \in Points :
        /\ At(dbResult, p) # Noise
        /\ ~CorePoint(p)
        /\ \E q \in Points : CorePoint(q) /\ Within(p, q)
                             /\ At(dbResult, q) = At(dbResult, p)

(* C8 as claimed: with minPts >= 1 every cluster has at least minPts       *)
(* member points.                                                          *)
C8_ClusterSizeAtLeastMinPts ==
    (DbscanReturned /\ minPts >= 1)
    => \A c \in ClusterLabels : Cardinality(Members(c)) >= minPts

(* the points of other clusters within epsilon of a core point of c *)
LostBorder(c) ==
    {q \in Points :
        /\ At(dbResult, q) \notin {Noise, c}
        /\ \E p \in Members(c) : CorePoint(p) /\ Within(p, q)}

(* C8 as amended: with minPts >= 1 the members of a cluster together with  *)
(* the points within epsilon of its core points that carry another         *)
(* cluster's label number at least minPts.                                 *)
C8_ClusterWithLostBorder ==
    (DbscanReturned /\ minPts >= 1)
    => \A c \in ClusterLabels :
         Cardinality(Members(c) \cup LostBorder(c)) >= minPts

C8_Witness ==
    /\ DbscanReturned /\ minPts >= 1
    /\ \E c \in ClusterLabels :
        /\ Cardinality(Members(c)) < minPts
        /\ LostBorder(c) # {}

NearCore(p) == \E q \in Points : CorePoint(q) /\ Within(p, q)

(* C25: in every dbscan result a point is labelled -1 if and only if it is *)
(* not a core point and no core point lies within epsilon of it: a point   *)
(* first marked noise is relabelled into a cluster when a later-expanded   *)
(* core point has it in its neighbourhood, and no core point is ever       *)
(* labelled noise.                                                         *)
C25_NoiseIffUnreachable ==
    /\ [](DbscanReturned =>
            \A p \in Points :
                At(dbResult, p) = Noise <=> ~CorePoint(p) /\ ~NearCore(p))
    /\ [](\A p \in Points : At(labels, p) = Noise => ~CorePoint(p))
    /\ [][\A p \in Points :
            At(labels, p) = Noise /\ At(labels', p) # Noise =>
                /\ dbPc = "expand"
                /\ p = At(seedSet, dbJ)
                /\ At(labels', p) = clusterId
                /\ \E q \in Points :
                      /\ CorePoint(q) /\ Within(p, q)
                      /\ At(labels', q) = clusterId]_vars

(* a result with a border point that comes before every core point of its *)
(* cluster, so that it was first marked noise                             *)
C25_Witness ==
    /\ DbscanReturned
    /\ \E p \in Points :
        /\ At(dbResult, p) # Noise
        /\ ~CorePoint(p)
        /\ \A q \in Members(At(dbResult, p)) : CorePoint(q) => p < q

(* the core points joined to the core points of S by a chain of core       *)
(* points, each within epsilon of the next                                 *)
RECURSIVE CoreComponent(_)
CoreComponent(S) ==
    LET step == S \cup { q \in Points :
                            CorePoint(q) /\ \E p \in S : Within(p, q) }
    IN  IF step = S THEN S ELSE CoreComponent(step)

SameComponentSameLabel ==
    DbscanReturned =>
        \A p, q \in Points :
            CorePoint(p) /\ CorePoint(q) =>
                /\ Within(p, q) => At(dbResult, p) = At(dbResult, q)
                /\ At(dbResult, p) = At(dbResult, q) <=> q \in CoreComponent({p})

NoSeedTwice ==
    \A a, b \in 1 .. Len(seedSet) : seedSet[a] = seedSet[b] => a = b

---------------------------------------------------------------------------
(* Claims about the kernel matrix *)

KernelReturned == kerPc = "done"

Uniform(vs) == \A p, q \in 1 .. Len(vs) : Len(vs[p]) = Len(vs[q])

ZeroNorm(v) == \A d \in 1 .. Len(v) : v[d] = 0

(* C9: for n vectors of uniform dimension (zero-norm vectors included)     *)
(* computeKernelMatrix returns an n x n matrix with M[i][j] = M[j][i] for  *)
(* all i, j and M[i][i] exactly 1.0 for all i.                             *)
C9_SymmetricUnitDiagonal ==
    (KernelReturned /\ Uniform(vectors))
    => /\ Len(kerResult) = Len(vectors)
       /\ \A i \in Indices(vectors) :
            /\ Len(At(kerResult, i)) = Len(vectors)
            /\ At(At(kerResult, i), i) = SimOne
            /\ \A j \in Indices(vectors) :
                 At(At(kerResult, i), j) = At(At(kerResult, j), i)

C9_Witness ==
    /\ KernelReturned /\ Uniform(vectors)
    /\ Len(vectors) = 3
    /\ ZeroNorm(At(vectors, 1))
    /\ At(At(kerResult, 0), 2) \notin {SimZero, SimOne}
    /\ At(At(kerResult, 2), 0) = At(At(kerResult, 0), 2)

(* C10: cosineSimilarityKernel raises its explicit error for every pair of *)
(* vectors of different length, and computeKernelMatrix ends with that     *)
(* error, returning no matrix, whenever two vectors of the collection      *)
(* differ in length: it never stops before its end, and it returns only    *)
(* for a collection of uniform dimension.                                  *)
C10_DimensionMismatchRaises ==
    /\ \A a, b \in KernelVectors :
         Len(a) # Len(b) => CosineSimilarityKernel(a, b).thrown
    /\ kerPc = "loop" => ENABLED KernelNext
    /\ KernelReturned => Uniform(vectors)
    /\ kerPc = "thrown" => kerResult = <<>> /\ kerError = DimensionError
    /\ (~Uniform(vectors)) => kerResult = <<>>

C10_Witness ==
    /\ kerPc = "thrown" /\ kerError = DimensionError /\ kerResult = <<>>
    /\ Len(vectors) = 3
    /\ Len(At(vectors, 0)) = Len(At(vectors, 1))
    /\ Len(At(vectors, 2)) # Len(At(vectors, 0))
    /\ kerI = 0 /\ kerJ = 2

---------------------------------------------------------------------------
(* Claims about the primitives *)

NonZero(v) == \E d \in 1 .. Len(v) : v[d] # 0

(* C11: for every vector v with nonzero norm, cosineSimilarityKernel(v, v) *)
(* returns exactly 1.                                                      *)
C11_SelfSimilarityIsOne ==
    (primPc = "cosine" /\ argA = argB /\ NonZero(argA)) => primCos = FloatOne

(* the L2 distance over the first min(|a|, |b|) components *)
TruncatedDistance(a, b) ==
    [nan |-> FALSE, inf |-> FALSE,
     sq |-> SumSeq([d \in 1 .. Min(Len(a), Len(b)) |->
                        (a[d] - b[d]) * (a[d] - b[d])]),
     den |-> 1]

(* C12: when a and b differ in length, euclideanDistance(a, b) fails or    *)
(* returns the L2 distance over the first min(|a|, |b|) components, in     *)
(* both argument orders; it never returns a non-number.                    *)
C12_LengthMismatchTruncates ==
    (primPc = "distance" /\ Len(argA) # Len(argB))
        => primDist = TruncatedDistance(argA, argB)

---------------------------------------------------------------------------
(* Claims about the clustering metrics *)

MetricsReturned == metPc = "done"

(* the elements of seq at the positions that labs does not label noise *)
WithoutNoise(seq, labs) ==
    LET F[i \in 0 .. Len(seq)] ==
            IF i = 0 THEN <<>>
            ELSE IF labs[i] = -1 THEN F[i - 1] ELSE Append(F[i - 1], seq[i])
    IN  F[Len(seq)]

(* C13: noise points do not influence the metrics: each of the three       *)
(* values calculateClusteringMetrics returns equals the value obtained on  *)
(* the same collection with all points labelled -1 removed.                *)
C13_NoiseDoesNotInfluence ==
    MetricsReturned =>
        metResult = ClusteringMetrics(WithoutNoise(vectors, labeling),
                                      WithoutNoise(labeling, labeling))

NonNoise == {i \in 1 .. Len(vectors) : labeling[i] # -1}

(* the other points of the cluster of point i *)
Mates(i) == {j \in NonNoise \ {i} : labeling[j] = labeling[i]}

(* the points the silhouette scores: not noise, not alone in the cluster *)
Scored == {i \in NonNoise : Mates(i) # {}}

(* the sum of the values of the function F *)
RECURSIVE Total(_)
Total(F) ==
    IF DOMAIN F = {} THEN Zero
    ELSE LET x == CHOOSE y \in DOMAIN F : TRUE
         IN  NumAdd(F[x], Total([y \in DOMAIN F \ {x} |-> F[y]]))

(* the mean distance from point i to the points of S *)
MeanDistance(i, S) ==
    NumDiv(Total([j \in S |-> Distance(Rat(vectors[i]), Rat(vectors[j]))]),
           Whole(Cardinality(S)))

(* b(i): the least mean distance from point i to the non-noise points of   *)
(* another cluster, 0 when no cluster is at a smaller than infinite mean   *)
NearestOther(i) ==
    LET means == {MeanDistance(i, {j \in NonNoise : labeling[j] = c}) :
                     c \in {labeling[j] : j \in NonNoise} \ {labeling[i]}}
    IN  IF \A m \in means : m = PosInf THEN Zero
        ELSE CHOOSE m \in means : \A o \in means : ~NumLess(o, m)

(* s(i) = (b - a) / max(a, b), 0 when a = b = 0 *)
Silhouette(i) ==
    LET a == MeanDistance(i, Mates(i))
        b == NearestOther(i)
    IN  IF NumMax(a, b) = Zero THEN Zero
        ELSE NumDiv(NumSub(b, a), NumMax(a, b))

RealClusters == {labeling[i] : i \in NonNoise}

(* C15: daviesBouldinIndex is exactly 0 for every labeling with fewer than *)
(* two distinct non-noise labels, for every vector collection.             *)
C15_DaviesBouldinZeroBelowTwoClusters ==
    (MetricsReturned /\ Cardinality(RealClusters) < 2)
        => metResult.daviesBouldinIndex = Zero

C15_Witness ==
    /\ MetricsReturned
    /\ Cardinality(RealClusters) = 1
    /\ \E i \in 1 .. Len(vectors) : labeling[i] = -1
    /\ \E i \in NonNoise : \E j \in NonNoise : vectors[i] # vectors[j]
    /\ metResult.daviesBouldinIndex = Zero

(* C16: for every collection of finite vectors of uniform dimension and    *)
(* every labeling of the same length, calculateClusteringMetrics returns   *)
(* three defined finite numbers; calinskiHarabaszIndex is 0 whenever       *)
(* K < 2, N <= K or SS_within is 0.                                        *)
C16_MetricsAlwaysFinite ==
    MetricsReturned =>
        /\ Finite(metResult.silhouetteScore)
        /\ Finite(metResult.daviesBouldinIndex)
        /\ Finite(metResult.calinskiHarabaszIndex)
        /\ (\/ Cardinality(RealClusters) < 2
            \/ Cardinality(NonNoise) <= Cardinality(RealClusters)
            \/ WithinSumOfSquares(vectors, labeling, UniqueClusters(labeling),
                                  GetClusterCentroids(vectors, labeling,
                                                      UniqueClusters(labeling)))
                   = Zero)
               => metResult.calinskiHarabaszIndex = Zero

AllCoincide == \A i, j \in NonNoise : vectors[i] = vectors[j]

(* C30: for every labeling with exactly one non-noise cluster that has at  *)
(* least two members which are not all at the same position,               *)
(* calculateSilhouetteScore returns -1 (b(i) is taken as 0 when no other   *)
(* cluster exists, so every scored point scores -1); it returns 0 only     *)
(* when all members coincide.                                              *)
C30_OneClusterScoresMinusOne ==
    (MetricsReturned /\ Cardinality(RealClusters) = 1
        /\ Cardinality(NonNoise) >= 2)
    => /\ ~AllCoincide => metResult.silhouetteScore = Whole(-1)
       /\ metResult.silhouetteScore = Zero <=> AllCoincide

---------------------------------------------------------------------------
(* Claims about the empty collection *)

(* C17: empty input never raises and short-circuits: kMeans on an empty    *)
(* collection returns an empty array for every k, dbscan returns an empty  *)
(* array for every epsilon and minPts, and calculateClusteringMetrics on   *)
(* an empty collection with an empty labeling returns 0 for all three      *)
(* indices.                                                                *)
C17_EmptyInputShortCircuits ==
    vectors = <<>> =>
        /\ kmPc \in {"idle", "call", "done"}
        /\ kmError = ""
        /\ kmPc = "done" => kmResult = <<>>
        /\ dbPc \in {"idle", "outer", "done"}
        /\ dbPc = "done" => dbResult = <<>>
        /\ metPc = "done" =>
               /\ metResult.silhouetteScore = Zero
               /\ metResult.daviesBouldinIndex = Zero
               /\ metResult.calinskiHarabaszIndex = Zero

C17_Witness ==
    /\ vectors = <<>>
    /\ k = -1
    /\ maxIterations > 0
    /\ kmPc = "done"
    /\ kmResult = <<>>

---------------------------------------------------------------------------
(* Claims about the self-organizing map *)

(* C18: SOM.train called with an empty data array leaves every weight of   *)
(* the grid unchanged (and width, height, inputDim unchanged), for every   *)
(* iterations value and every startLearningRate, whether or not the SOM    *)
(* was trained before.  A train call with no data is the only step that    *)
(* ends "skipped" or raises: it ends "skipped", and changes none of them.  *)
C18_EmptyDataTrainIsNoOp ==
    [][somPc' \in {"skipped", "thrown"} =>
           /\ somPc' = "skipped"
           /\ weights' = weights
           /\ width' = width
           /\ height' = height
           /\ inputDim' = inputDim]_vars

C18_Witness ==
    /\ somPc = "skipped"
    /\ trained
    /\ \E x \in 0 .. width - 1, y \in 0 .. height - 1 :
           weights[x][y][1] \notin InitialWeights

NumAbs(x) == IF Sign(x) < 0 THEN NumNeg(x) ELSE x

(* the Euclidean distance of two vectors of one number, |u - v|: it is a   *)
(* number of the range whenever u and v are                                *)
Separation(u, v) == NumAbs(NumSub(u[1], v[1]))

(* the place of a cell in the scan of the two nested loops *)
ScanOrder(c) == c.x * height + c.y

GridCells == { [x |-> x, y |-> y] : x \in 0 .. width - 1, y \in 0 .. height - 1 }

(* C19: for every SOM with width >= 1 and height >= 1 and every input of   *)
(* dimension inputDim, at any point after construction (before, between or *)
(* after train calls), findBMU returns coordinates (x, y) with             *)
(* 0 <= x < width and 0 <= y < height of a cell whose prototype has the    *)
(* minimum Euclidean distance to the input among all cells, choosing the   *)
(* first such cell in x-major then y scan order on ties, and it does not   *)
(* modify the grid.                                                        *)
C19_FindBMUReturnsNearestCell ==
    /\ [](somPc = "bmu" =>
             /\ bmu \in GridCells
             /\ \A c \in GridCells :
                   /\ ~NumLess(Separation(somInput, weights[c.x][c.y]),
                               Separation(somInput, weights[bmu.x][bmu.y]))
                   /\ ScanOrder(c) < ScanOrder(bmu) =>
                          NumLess(Separation(somInput, weights[bmu.x][bmu.y]),
                                  Separation(somInput, weights[c.x][c.y])))
    /\ [][somPc' = "bmu" => weights' = weights]_vars

InUnitInterval(v) == ~v.nan /\ ~NumLess(v, Zero) /\ ~NumLess(Whole(1), v)

(* C20: for every SOM grid state, getUMatrix returns a width x height      *)
(* matrix whose every value lies in [0,1]; when all cells have the same    *)
(* mean neighbour distance (including a 1x1 grid, which has no neighbours) *)
(* every value is 0; otherwise at least one cell has value 0 and at least  *)
(* one has value 1; the grid weights are not modified by the call.         *)
C20_UMatrixIsNormalized ==
    /\ [](somPc = "umatrix" =>
             /\ DOMAIN uMatrix = 0 .. width - 1
             /\ \A x \in 0 .. width - 1 : DOMAIN uMatrix[x] = 0 .. height - 1
             /\ \A c \in GridCells : InUnitInterval(uMatrix[c.x][c.y])
             /\ IF \A c, d \in GridCells :
                       MeanNeighborDistance(weights, width, height, c.x, c.y)
                           = MeanNeighborDistance(weights, width, height, d.x, d.y)
                THEN \A c \in GridCells : uMatrix[c.x][c.y] = Zero
                ELSE /\ \E c \in GridCells : uMatrix[c.x][c.y] = Zero
                     /\ \E c \in GridCells : uMatrix[c.x][c.y] = Whole(1))
    /\ [][somPc' = "umatrix" => weights' = weights]_vars

(* C27: during SOM.train, for every grid size (1 x 1, 1 x 2 and 2 x 2      *)
(* grids included) and every iterations >= 1, the neighbourhood radius     *)
(* used in iteration i + 1 is strictly smaller than the radius used in     *)
(* iteration i, starting from max(width, height) / 2.                      *)
C27_RadiusDecreases ==
    somPc = "trained" =>
        /\ Len(schedule) >= 1 =>
              schedule[1].radius = RadiusAt(width, height, 0, Len(schedule))
        /\ \A i \in 1 .. Len(schedule) - 1 :
              RadiusLess(schedule[i + 1].radius, schedule[i].radius)

SameShape(after, before) ==
    /\ DOMAIN after = DOMAIN before
    /\ \A x \in DOMAIN before :
          /\ DOMAIN after[x] = DOMAIN before[x]
          /\ \A y \in DOMAIN before[x] : Len(after[x][y]) = Len(before[x][y])

ChangedCells(after, before) ==
    { c \in GridCells : after[c.x][c.y] # before[c.x][c.y] }

(* one update step from the weights before, on input at the rate *)
OneUpdate(after, before, input, rate) ==
    LET b == FindBMU(before, width, height, input)
    IN  \A c \in GridCells :
            after[c.x][c.y] =
                IF c = b
                THEN [d \in 1 .. inputDim |->
                        NumAdd(before[b.x][b.y][d],
                               NumMul(rate, NumSub(input[d], before[b.x][b.y][d])))]
                ELSE before[c.x][c.y]

(* C28: a SOM instance accepts any sequence of train, findBMU and          *)
(* getUMatrix calls after construction: no call raises, and every train    *)
(* call starts its schedule again from radius max(width, height) / 2 and   *)
(* from the startLearningRate passed to that call, independently of all    *)
(* earlier train calls, continues from the weights left by the previous    *)
(* calls, performs exactly `iterations` update steps, and changes only     *)
(* weight values (width, height, inputDim and the shape of the weight grid *)
(* never change).                                                          *)
C28_TrainRestartsSchedule ==
    /\ [](somPc # "thrown")
    /\ [][/\ width' = width /\ height' = height /\ inputDim' = inputDim
          /\ SameShape(weights', weights)
          /\ somPc' # "trained" => weights' = weights
          /\ somPc' = "trained" =>
                /\ Len(schedule') = trainArgs'.iterations
                /\ Len(schedule') >= 1 =>
                      /\ schedule'[1].radius.twice = Largest(width, height)
                      /\ schedule'[1].radius.left = schedule'[1].radius.of
                      /\ schedule'[1].learningRate = trainArgs'.startLearningRate
                /\ trainArgs'.iterations = 0 => weights' = weights
                /\ trainArgs'.iterations = 1 =>
                      \E input \in SomInputs :
                          OneUpdate(weights', weights, input,
                                    trainArgs'.startLearningRate)
                /\ Cardinality(ChangedCells(weights', weights))
                      <= trainArgs'.iterations]_vars

(* a second train call with data, of two iterations, that has moved the    *)
(* weights a first one had left                                            *)
C28_Witness ==
    /\ somPc = "trained"
    /\ retrained
    /\ trainArgs.iterations = 2
    /\ trainArgs.startLearningRate = Whole(1)
    /\ weights[0][0][1] \in { input[1] : input \in SomInputs }

Between(v, a, b) ==
    /\ ~v.nan
    /\ \/ ~NumLess(v, a) /\ ~NumLess(b, v)
       \/ ~NumLess(v, b) /\ ~NumLess(a, v)

(* min(-0.5, smallest d-th component) and max(0.5, largest d-th component) *)
(* of the data of the train calls so far                                   *)
LowestOf(d) ==
    LET S == { Num(-1, 2, 0) } \cup { input[d] : input \in trainedOn }
    IN  CHOOSE v \in S : \A u \in S : ~NumLess(u, v)

HighestOf(d) ==
    LET S == { Num(1, 2, 0) } \cup { input[d] : input \in trainedOn }
    IN  CHOOSE v \in S : \A u \in S : ~NumLess(v, u)

(* C29: with 0 <= startLearningRate <= 1, every weight update of SOM.train *)
(* moves each component of an updated prototype to a value between its     *)
(* previous value and the corresponding component of the training vector   *)
(* (no overshoot), so after any number of train calls every weight         *)
(* component d lies between min(-0.5, smallest d-th component of the data) *)
(* and max(0.5, largest d-th component of the data); cells at grid         *)
(* distance >= radius from the BMU are left unchanged in that step.        *)
C29_NoOvershoot ==
    /\ [](\A c \in GridCells : \A d \in 1 .. inputDim :
            Between(weights[c.x][c.y][d], LowestOf(d), HighestOf(d)))
    /\ [][somPc' = "trained" /\ trainArgs'.iterations = 1 =>
            \E p \in 1 .. Len(trainArgs'.data) :
                LET input == trainArgs'.data[p]
                    b == FindBMU(weights, width, height, input)
                IN  \A c \in GridCells :
                        IF c = b
                        THEN \A d \in 1 .. inputDim :
                                Between(weights'[c.x][c.y][d],
                                        weights[c.x][c.y][d], input[d])
                        ELSE weights'[c.x][c.y] = weights[c.x][c.y]]_vars

---------------------------------------------------------------------------
(* Claims about the analysis of the kernel matrix *)

(* the indices appended before place p of indices, and those left *)
Appended(p) == { indices[q] : q \in 1 .. p - 1 }

Unvisited(p) == (0 .. Len(vectors) - 1) \ Appended(p)

(* the similarity of index j to the index appended before place p *)
SimilarityToLast(p, j) == At(At(rawMatrix, indices[p - 1]), j)

(* the index at place p is an unvisited index of maximal similarity to the *)
(* index before it, the lowest such index                                  *)
MostSimilar(p) ==
    /\ indices[p] \in Unvisited(p)
    /\ \A j \in Unvisited(p) :
          /\ ~FloatLess(SimilarityToLast(p, indices[p]), SimilarityToLast(p, j))
          /\ SimilarityToLast(p, j) = SimilarityToLast(p, indices[p])
                 => indices[p] <= j

FirstUnvisited(p) ==
    /\ indices[p] \in Unvisited(p)
    /\ \A j \in Unvisited(p) : indices[p] <= j

(* some unvisited index has a similarity above -1 *)
Informative(p) ==
    \E j \in Unvisited(p) : FloatLess(SimilarityFloor, SimilarityToLast(p, j))

IsPermutation(order, n) ==
    /\ Len(order) = n
    /\ \A i \in 0 .. n - 1 : \E p \in 1 .. n : order[p] = i

UpperTriangle(raw) ==
    LET n == Len(raw)
        F[i \in 0 .. n] ==
            IF i = 0 THEN <<>>
            ELSE F[i - 1] \o [p \in 1 .. n - i |-> At(At(raw, i - 1), i - 1 + p)]
    IN  F[n]

(* how many times each value occurs in a sequence *)
Occurrences(values) ==
    [v \in { values[p] : p \in DOMAIN values } |->
        Cardinality({ p \in DOMAIN values : values[p] = v })]

(* C22: for every kernel matrix of n >= 2 vectors and whatever greedy      *)
(* ordering results, the statistics (mean, variance, min, max) are         *)
(* computed over exactly the n(n-1)/2 values M[i][j], i < j, of the kernel *)
(* matrix: each unordered pair of distinct points contributes exactly once *)
(* and no diagonal entry is included.                                      *)
C22_StatsOverUpperTriangle ==
    anPc = "done" =>
        /\ Len(flatValues) = (Len(vectors) * (Len(vectors) - 1)) \div 2
        /\ Occurrences(flatValues) = Occurrences(UpperTriangle(rawMatrix))
        /\ stats = CalculateStats(flatValues)

(* the similarities of point p to the n - 1 other points *)
SimilaritiesToOthers(raw, p) ==
    LET others == OtherColumns(Len(raw), p)
    IN  [q \in 1 .. Len(others) |-> At(At(raw, p), others[q])]

(* the average similarity of p to its min(3, n-1) most similar other       *)
(* points, minus its average similarity to all other points                *)
PointSeparability(raw, p) ==
    LET toOthers == SimilaritiesToOthers(raw, p)
        nearest == SortDescending(toOthers)
        count == Min(3, Len(toOthers))
        top == FloatQuotient(FloatSum([q \in 1 .. count |-> nearest[q]]),
                             FloatOfInt(count))
        all == FloatQuotient(FloatSum(toOthers), FloatOfInt(Len(toOthers)))
    IN  FloatSub(top, all)

(* its mean over the points, taken in the order of the reordering *)
MeanSeparability(raw, order) ==
    FloatQuotient(
        FloatSum([p \in 1 .. Len(order) |-> PointSeparability(raw, order[p])]),
        FloatOfInt(Len(order)))

UniformSimilarity(raw) ==
    \A i, j, p, q \in 0 .. Len(raw) - 1 :
        i # j /\ p # q => At(At(raw, i), j) = At(At(raw, p), q)

(* C23: for every kernel matrix of n >= 2 vectors and whatever greedy      *)
(* ordering results, the separability index equals the mean over all       *)
(* points p of (average similarity of p to its min(3, n-1) most similar    *)
(* other points) minus (average of p's similarity to all n-1 other points, *)
(* self-similarity excluded); in particular it is 0 when all off-diagonal  *)
(* similarities are equal.                                                 *)
C23_SeparabilityIsMeanOverPoints ==
    anPc = "done" =>
        /\ separabilityIndex = MeanSeparability(rawMatrix, indices)
        /\ UniformSimilarity(rawMatrix) => separabilityIndex = FloatZero

===========================================================================
